---- MODULE Spec2Model ----
(***************************************************************************)
(* TekWizely/go-parsing: the lexer engine (runes -> tokens) and the parser *)
(* engine (tokens -> ASTs), their markers and their pull drivers.          *)
(*                                                                         *)
(* Go structs are records, Go methods are operators from a struct value to *)
(* a result record [l |-> struct after the call, ret |-> returned value,   *)
(* panic |-> panic message or NoPanic].  User transition functions (Fn)    *)
(* are arbitrary code: inside a Fn the model lets the user perform any     *)
(* sequence of engine operations and return any continuation.              *)
(***************************************************************************)
EXTENDS Integers, Sequences, FiniteSets, TLC

\* ---------------------------------------------------------------- bounds
MaxInput   == 3   \* most elements an Element Source delivers
MaxPeek    == 3   \* largest n handed to CanPeek / Peek
MaxMarkers == 1   \* markers the user code takes in one run
MaxFlush   == 2   \* flushes (emit / clear) the user code performs in one run
MaxEnds    == 2   \* times the consumer calls Next() after the stream has ended

\* ------------------------------------------------------- program constants
TLexErr  == 0
TUnknown == 1
TEof     == 2
TStart   == 3

\* ------------------------------------------------------------ model values
Nil       == "nil"          \* nil Fn / nil token / nil AST
NoElem    == 0              \* nil *list.Element
NoPanic   == "none"
NoErr     == "noerr"
EOF       == "io.EOF"       \* io.EOF
ErrOther  == "err"          \* any error other than io.EOF
RuneError == "RuneError"    \* utf8.RuneError
NoRune    == "norune"       \* the zero rune / nil token of a read that delivers nothing
NewLine   == "\n"
Fns       == {"fn1", "fn2"}
EmitTypes == {TEof, TStart}
ErrMsgs   == {"bad token"}
Asts      == {"ast"}

Min(a, b) == IF a < b THEN a ELSE b

\* ---------------------------------------------------------- Element Source
\* The i-th rune of the input text: the digits "1", "2", ... with a newline
\* in second place, so that every element of a source is different.
RuneAt(i) == IF i = 2 THEN NewLine ELSE ToString(i)

\* One read of the source is [v, err]: the value it delivers (NoRune when
\* none) and the error it reports with it.
Clean(n) == [i \in 1..n |-> [v |-> RuneAt(i), err |-> NoErr]]

\* Sources: a text of up to MaxInput runes, read to its end; a text whose
\* last rune is delivered together with an error; a text followed by a read
\* that fails with an error other than io.EOF; a text of MaxInput runes
\* with one invalid rune (utf8.RuneError) in it; and a source that fails
\* once with an error other than io.EOF and has more to deliver after it.
Sources ==
    {Clean(n) : n \in 0..MaxInput}
    \cup {[Clean(n) EXCEPT ![n].err = e] : n \in {MaxInput - 1}, e \in {EOF, ErrOther}}
    \cup {Append(Clean(n), [v |-> NoRune, err |-> ErrOther]) : n \in {0, MaxInput - 1}}
    \cup {[Clean(MaxInput) EXCEPT ![k].v = RuneError] : k \in 1..MaxInput}
    \cup {[Clean(MaxInput) EXCEPT ![MaxInput - 1] = [v |-> NoRune, err |-> ErrOther]]}

\* The token sources of a parser have the same shapes; a token is never an
\* invalid rune.
TokenSources == {src \in Sources : \A i \in 1..Len(src) : src[i].v # RuneError}

\* strings.Reader.ReadRune / mockNexter.Next: past the end the source reports
\* io.EOF and delivers nothing.
ReadRune(input) ==
    IF input.i > Len(input.data)
    THEN [v |-> NoRune, err |-> EOF, input |-> input]
    ELSE [v     |-> input.data[input.i].v,
          err   |-> input.data[input.i].err,
          input |-> [input EXCEPT !.i = @ + 1]]

\* ------------------------------------------------------------------- token
newToken(typ, value, line, column) ==
    [typ |-> typ, value |-> value, line |-> line, column |-> column]

\* Mutation of token_eof: no token is taken for the end of the stream.
token_eof_never(tok) == FALSE

token_eof(tok) == tok.typ = TEof

\* =================================================================== Lexer
newLexer(reader, start) ==
    [input     |-> reader,
     cache     |-> <<>>,      \* list of elements [id, v]; id is the element's identity
     matchTail |-> NoElem,
     matchLen  |-> 0,
     line      |-> 0,
     column    |-> 0,
     nextFn    |-> start,
     output    |-> <<>>,
     eof       |-> FALSE,
     eofOut    |-> FALSE,
     markerID  |-> 0]

\* Index in the list of the element a pointer refers to, 0 when the element
\* is not in the list (e == nil, or e was removed).
ElemPos(cache, e) ==
    IF \E i \in 1..Len(cache) : cache[i].id = e
    THEN CHOOSE i \in 1..Len(cache) : cache[i].id = e
    ELSE 0

\* list.Element.Next(): index of the element after e, 0 when there is none.
ElemNext(cache, e) ==
    LET i == ElemPos(cache, e)
    IN  IF i = 0 \/ i = Len(cache) THEN 0 ELSE i + 1

\* Mutation of growPeek: an error other than io.EOF is passed over and the
\* reading goes on.
RECURSIVE Lexer_growPeek_skipsErr(_, _)
Lexer_growPeek_skipsErr(l, n) ==
    IF Len(l.cache) - l.matchLen >= n THEN [l |-> l, ret |-> TRUE]
    ELSE IF l.eof THEN [l |-> l, ret |-> FALSE]
    ELSE LET rd == ReadRune(l.input)
             l1 == IF rd.v # NoRune /\ rd.v # RuneError
                   THEN [l EXCEPT !.cache = Append(@, [id |-> l.input.i, v |-> rd.v])]
                   ELSE l
             l2 == [l1 EXCEPT !.input = rd.input,
                              !.eof   = IF rd.err = EOF THEN TRUE ELSE @]
         IN  Lexer_growPeek_skipsErr(l2, n)

\* Mutation of growPeek: it reads one element more than it was asked for.
RECURSIVE Lexer_growPeek_readsAhead(_, _)
Lexer_growPeek_readsAhead(l, n) ==
    IF Len(l.cache) - l.matchLen > n THEN [l |-> l, ret |-> TRUE]
    ELSE IF l.eof THEN [l |-> l, ret |-> Len(l.cache) - l.matchLen >= n]
    ELSE LET rd == ReadRune(l.input)
             l1 == IF rd.v # NoRune /\ rd.v # RuneError
                   THEN [l EXCEPT !.cache = Append(@, [id |-> l.input.i, v |-> rd.v])]
                   ELSE l
             l2 == [l1 EXCEPT !.input = rd.input,
                              !.eof   = IF rd.err # NoErr THEN TRUE ELSE @]
         IN  Lexer_growPeek_readsAhead(l2, n)

RECURSIVE Lexer_growPeek(_, _)
Lexer_growPeek(l, n) ==
    IF Len(l.cache) - l.matchLen >= n THEN [l |-> l, ret |-> TRUE]
    ELSE IF l.eof THEN [l |-> l, ret |-> FALSE]
    ELSE LET rd == ReadRune(l.input)
             l1 == IF rd.v # NoRune /\ rd.v # RuneError
                   THEN [l EXCEPT !.cache = Append(@, [id |-> l.input.i, v |-> rd.v])]
                   ELSE l
             l2 == [l1 EXCEPT !.input = rd.input,
                              !.eof   = IF rd.err # NoErr THEN TRUE ELSE @]
         IN  Lexer_growPeek(l2, n)

\* Mutation of peekHead: the front of the cache, whatever is matched.
Lexer_peekHead_front(l) == IF Len(l.cache) > 0 THEN 1 ELSE 0

\* Index in the cache of the first peekable element, 0 when there is none.
Lexer_peekHead(l) ==
    IF l.matchLen > 0 THEN ElemNext(l.cache, l.matchTail)
    ELSE IF Len(l.cache) > 0 THEN 1 ELSE 0

\* Mutation of CanPeek: answers without looking at the source.
Lexer_CanPeek_blind(l, n) == [l |-> l, ret |-> TRUE, panic |-> NoPanic]

\* Mutation of CanPeek: panics after EOF is emitted, as Peek does.
Lexer_CanPeek_panics(l, n) ==
    IF n < 1 THEN [l |-> l, ret |-> FALSE, panic |-> "Lexer.CanPeek: range error"]
    ELSE IF l.eofOut
    THEN [l |-> l, ret |-> FALSE,
          panic |-> "Lexer.CanPeek: No runes can be peeked after EOF is emitted"]
    ELSE LET g == Lexer_growPeek(l, n)
         IN  [l |-> g.l, ret |-> g.ret, panic |-> NoPanic]

\* Mutation of CanPeek: when the source runs out, what was fetched on the
\* way is given up.
Lexer_CanPeek_givesUp(l, n) ==
    IF n < 1 THEN [l |-> l, ret |-> FALSE, panic |-> "Lexer.CanPeek: range error"]
    ELSE IF l.eofOut THEN [l |-> l, ret |-> FALSE, panic |-> NoPanic]
    ELSE LET g == Lexer_growPeek(l, n)
         IN  IF g.ret
             THEN [l |-> g.l, ret |-> TRUE, panic |-> NoPanic]
             ELSE [l |-> [g.l EXCEPT !.cache = l.cache], ret |-> FALSE, panic |-> NoPanic]

Lexer_CanPeek(l, n) ==
    IF n < 1 THEN [l |-> l, ret |-> FALSE, panic |-> "Lexer.CanPeek: range error"]
    ELSE IF l.eofOut THEN [l |-> l, ret |-> FALSE, panic |-> NoPanic]
    ELSE LET g == Lexer_growPeek(l, n)
         IN  [l |-> g.l, ret |-> g.ret, panic |-> NoPanic]

\* Mutation of Peek: eofOut is checked before the range of n.
Lexer_Peek_eofFirst(l, n) ==
    IF l.eofOut
    THEN [l |-> l, ret |-> NoRune,
          panic |-> "Lexer.Peek: No runes can be peeked after EOF is emitted"]
    ELSE IF n < 1 THEN [l |-> l, ret |-> NoRune, panic |-> "Lexer.Peek: range error"]
    ELSE LET g == Lexer_growPeek(l, n)
             h == Lexer_peekHead(g.l)
             i == IF h = 0 THEN 0 ELSE h + (n - 1)
         IN  IF ~g.ret
             THEN [l |-> g.l, ret |-> NoRune, panic |-> "Lexer.Peek: No rune available"]
             ELSE IF i < 1 \/ i > Len(g.l.cache)
             THEN [l |-> g.l, ret |-> NoRune, panic |-> "nil pointer dereference"]
             ELSE [l |-> g.l, ret |-> g.l.cache[i].v, panic |-> NoPanic]

\* Walking n-1 times e.Next() from the peek head; a nil element dereferenced
\* is a nil-pointer panic.
\* Mutation of Peek: the rune it returns is taken off the cache.
Lexer_Peek_takes(l, n) ==
    IF n < 1 THEN [l |-> l, ret |-> NoRune, panic |-> "Lexer.Peek: range error"]
    ELSE IF l.eofOut
    THEN [l |-> l, ret |-> NoRune,
          panic |-> "Lexer.Peek: No runes can be peeked after EOF is emitted"]
    ELSE LET g == Lexer_growPeek(l, n)
             h == Lexer_peekHead(g.l)
             i == IF h = 0 THEN 0 ELSE h + (n - 1)
         IN  IF ~g.ret
             THEN [l |-> g.l, ret |-> NoRune, panic |-> "Lexer.Peek: No rune available"]
             ELSE IF i < 1 \/ i > Len(g.l.cache)
             THEN [l |-> g.l, ret |-> NoRune, panic |-> "nil pointer dereference"]
             ELSE [l     |-> [g.l EXCEPT !.cache = SubSeq(@, 1, i - 1) \o SubSeq(@, i + 1, Len(@))],
                   ret   |-> g.l.cache[i].v,
                   panic |-> NoPanic]

Lexer_Peek(l, n) ==
    IF n < 1 THEN [l |-> l, ret |-> NoRune, panic |-> "Lexer.Peek: range error"]
    ELSE IF l.eofOut
    THEN [l |-> l, ret |-> NoRune,
          panic |-> "Lexer.Peek: No runes can be peeked after EOF is emitted"]
    ELSE LET g == Lexer_growPeek(l, n)
             h == Lexer_peekHead(g.l)
             i == IF h = 0 THEN 0 ELSE h + (n - 1)
         IN  IF ~g.ret
             THEN [l |-> g.l, ret |-> NoRune, panic |-> "Lexer.Peek: No rune available"]
             ELSE IF i < 1 \/ i > Len(g.l.cache)
             THEN [l |-> g.l, ret |-> NoRune, panic |-> "nil pointer dereference"]
             ELSE [l |-> g.l, ret |-> g.l.cache[i].v, panic |-> NoPanic]

\* Mutation of Next: the result of growPeek(1) is not looked at.
Lexer_Next_unchecked(l) ==
    IF l.eofOut
    THEN [l |-> l, ret |-> NoRune,
          panic |-> "Lexer.Next: No runes can be matched after EOF is emitted"]
    ELSE LET g == Lexer_growPeek(l, 1)
             h == Lexer_peekHead(g.l)
         IN  IF h = 0
             THEN [l |-> [g.l EXCEPT !.matchTail = NoElem, !.matchLen = @ + 1],
                   ret |-> NoRune, panic |-> "nil pointer dereference"]
             ELSE [l |-> [g.l EXCEPT !.matchTail = g.l.cache[h].id, !.matchLen = @ + 1],
                   ret |-> g.l.cache[h].v, panic |-> NoPanic]

Lexer_Next(l) ==
    IF l.eofOut
    THEN [l |-> l, ret |-> NoRune,
          panic |-> "Lexer.Next: No runes can be matched after EOF is emitted"]
    ELSE LET g == Lexer_growPeek(l, 1)
             h == Lexer_peekHead(g.l)
         IN  IF ~g.ret
             THEN [l |-> g.l, ret |-> NoRune, panic |-> "Lexer.Next: No rune available"]
             ELSE IF h = 0
             THEN [l |-> [g.l EXCEPT !.matchTail = NoElem, !.matchLen = @ + 1],
                   ret |-> NoRune, panic |-> "nil pointer dereference"]
             ELSE [l |-> [g.l EXCEPT !.matchTail = g.l.cache[h].id, !.matchLen = @ + 1],
                   ret |-> g.l.cache[h].v, panic |-> NoPanic]

Lexer_PeekToken(l) ==
    IF l.eofOut
    THEN [l |-> l, ret |-> <<>>,
          panic |-> "Lexer.PeekToken: No token peeks allowed after EOF is emitted"]
    ELSE IF l.matchLen > Len(l.cache)
    THEN [l |-> l, ret |-> <<>>, panic |-> "nil pointer dereference"]
    ELSE [l |-> l, ret |-> [i \in 1..l.matchLen |-> l.cache[i].v], panic |-> NoPanic]

\* The loop of clear: removes the front element while matchLen > 0, keeping
\* the text (when asked) and the line/column of the first removed rune.
\* acc = [b, line, column, first, panic].
RECURSIVE Lexer_clearLoop(_, _, _)
Lexer_clearLoop(l, returnText, acc) ==
    IF l.matchLen <= 0 THEN [l |-> l, acc |-> acc]
    ELSE IF Len(l.cache) = 0
    THEN [l |-> l, acc |-> [acc EXCEPT !.panic = "nil pointer dereference"]]
    ELSE LET r    == l.cache[1].v
             ln   == IF l.line = 0 THEN 1 ELSE l.line
             col  == IF l.column = 0 THEN 1 ELSE l.column
             acc1 == [b      |-> IF returnText THEN Append(acc.b, r) ELSE acc.b,
                      line   |-> IF acc.first THEN ln ELSE acc.line,
                      column |-> IF acc.first THEN col ELSE acc.column,
                      first  |-> FALSE,
                      panic  |-> acc.panic]
             l1   == [l EXCEPT !.line     = IF r = NewLine THEN ln + 1 ELSE ln,
                               !.column   = IF r = NewLine THEN 0 ELSE col + 1,
                               !.cache    = Tail(@),
                               !.matchLen = @ - 1]
         IN  Lexer_clearLoop(l1, returnText, acc1)

\* Mutation of clear: markerID moves only when something was matched.
Lexer_clear_lazyID(l, returnText) ==
    LET c == Lexer_clearLoop(l, returnText,
                 [b |-> <<>>, line |-> l.line, column |-> l.column,
                  first |-> TRUE, panic |-> NoPanic])
    IN  [l      |-> [c.l EXCEPT !.matchTail = NoElem,
                                !.markerID  = IF l.matchLen > 0 THEN @ + 1 ELSE @],
         value  |-> c.acc.b,
         line   |-> c.acc.line,
         column |-> c.acc.column,
         panic  |-> c.acc.panic]

\* Mutation of clear: the matched runes go, markerID stays.
Lexer_clear_sameID(l, returnText) ==
    LET c == Lexer_clearLoop(l, returnText,
                 [b |-> <<>>, line |-> l.line, column |-> l.column,
                  first |-> TRUE, panic |-> NoPanic])
    IN  [l      |-> [c.l EXCEPT !.matchTail = NoElem],
         value  |-> c.acc.b,
         line   |-> c.acc.line,
         column |-> c.acc.column,
         panic  |-> c.acc.panic]

Lexer_clear(l, returnText) ==
    LET c == Lexer_clearLoop(l, returnText,
                 [b |-> <<>>, line |-> l.line, column |-> l.column,
                  first |-> TRUE, panic |-> NoPanic])
    IN  IF c.acc.panic # NoPanic
        THEN [l |-> c.l, value |-> <<>>, line |-> c.acc.line, column |-> c.acc.column,
              panic |-> c.acc.panic]
        ELSE [l      |-> [c.l EXCEPT !.matchTail = NoElem, !.markerID = @ + 1],
              value  |-> c.acc.b,
              line   |-> c.acc.line,
              column |-> c.acc.column,
              panic  |-> NoPanic]

\* Mutation of emit: on EOF the peeked runes stay in the cache.
Lexer_emit_keepsCache(l, typ, emitText) ==
    LET c  == Lexer_clear(l, typ # TEof /\ emitText)
        l1 == IF typ = TEof
              THEN [c.l EXCEPT !.eof = TRUE, !.eofOut = TRUE]
              ELSE c.l
    IN  IF c.panic # NoPanic THEN [l |-> c.l, panic |-> c.panic]
        ELSE [l |-> [l1 EXCEPT !.output = Append(@, newToken(typ, c.value, c.line, c.column))],
              panic |-> NoPanic]

\* Mutation of emit: the EOF token takes the matched text when asked.
Lexer_emit_eofText(l, typ, emitText) ==
    LET c  == Lexer_clear(l, emitText)
        l1 == IF typ = TEof
              THEN [c.l EXCEPT !.cache = <<>>, !.eof = TRUE, !.eofOut = TRUE]
              ELSE c.l
    IN  IF c.panic # NoPanic THEN [l |-> c.l, panic |-> c.panic]
        ELSE [l |-> [l1 EXCEPT !.output = Append(@, newToken(typ, c.value, c.line, c.column))],
              panic |-> NoPanic]

\* Mutation of emit: the token goes to the front of the output list.
Lexer_emit_front(l, typ, emitText) ==
    LET c  == Lexer_clear(l, typ # TEof /\ emitText)
        l1 == IF typ = TEof
              THEN [c.l EXCEPT !.cache = <<>>, !.eof = TRUE, !.eofOut = TRUE]
              ELSE c.l
    IN  IF c.panic # NoPanic THEN [l |-> c.l, panic |-> c.panic]
        ELSE [l |-> [l1 EXCEPT !.output = <<newToken(typ, c.value, c.line, c.column)>> \o @],
              panic |-> NoPanic]

Lexer_emit(l, typ, emitText) ==
    LET c  == Lexer_clear(l, typ # TEof /\ emitText)
        l1 == IF typ = TEof
              THEN [c.l EXCEPT !.cache = <<>>, !.eof = TRUE, !.eofOut = TRUE]
              ELSE c.l
    IN  IF c.panic # NoPanic THEN [l |-> c.l, panic |-> c.panic]
        ELSE [l |-> [l1 EXCEPT !.output = Append(@, newToken(typ, c.value, c.line, c.column))],
              panic |-> NoPanic]

\* Mutation of EmitToken: the token takes the matched text, the matched
\* runes stay in the cache.
Lexer_EmitToken_keepsMatch(l, t) ==
    IF l.eofOut
    THEN [l |-> l, panic |-> "Lexer.EmitToken: No further emits allowed after EOF is emitted"]
    ELSE IF t = TEof THEN Lexer_emit(l, t, TRUE)
    ELSE [l |-> [l EXCEPT !.output =
                     Append(@, newToken(t, Lexer_PeekToken(l).ret, l.line, l.column))],
          panic |-> NoPanic]

\* Mutation of EmitToken: the token goes without the matched text.
Lexer_EmitToken_noText(l, t) ==
    IF l.eofOut
    THEN [l |-> l, panic |-> "Lexer.EmitToken: No further emits allowed after EOF is emitted"]
    ELSE Lexer_emit(l, t, FALSE)

Lexer_EmitToken(l, t) ==
    IF l.eofOut
    THEN [l |-> l, panic |-> "Lexer.EmitToken: No further emits allowed after EOF is emitted"]
    ELSE Lexer_emit(l, t, TRUE)

\* Mutation of EmitType: no check of eofOut.
Lexer_EmitType_unguarded(l, t) == Lexer_emit(l, t, FALSE)

Lexer_EmitType(l, t) ==
    IF l.eofOut
    THEN [l |-> l, panic |-> "Lexer.EmitType: No further emits allowed after EOF is emitted"]
    ELSE Lexer_emit(l, t, FALSE)

\* fmt.Sprintf("%d:%d: %s", line, column, err): the text is the sequence of
\* its pieces.
Sprintf_pos(line, column, err) == <<ToString(line), ":", ToString(column), ": ", err>>

\* Mutation of EmitError: the error token is pushed and nothing is cleared.
Lexer_EmitError_noClear(l, err) ==
    IF l.eofOut
    THEN [l |-> l, panic |-> "Lexer.EmitError: No further emits allowed after EOF is emitted"]
    ELSE [l |-> [l EXCEPT !.output =
                     Append(@, newToken(TLexErr, Sprintf_pos(l.line, l.column, err),
                                        l.line, l.column))],
          panic |-> NoPanic]

Lexer_EmitError(l, err) ==
    IF l.eofOut
    THEN [l |-> l, panic |-> "Lexer.EmitError: No further emits allowed after EOF is emitted"]
    ELSE LET c == Lexer_clear(l, FALSE)
             e == Sprintf_pos(c.l.line, c.l.column, err)
         IN  IF c.panic # NoPanic THEN [l |-> c.l, panic |-> c.panic]
             ELSE [l |-> [c.l EXCEPT !.output =
                              Append(@, newToken(TLexErr, e, c.l.line, c.l.column))],
                   panic |-> NoPanic]

\* Mutation of EmitEOF: emits nothing.
Lexer_EmitEOF_nothing(l) == [l |-> l, panic |-> NoPanic]

Lexer_EmitEOF(l) == Lexer_EmitType(l, TEof)

\* Mutation of Clear: the whole cache goes, as on EOF.
Lexer_Clear_dropsPeeked(l) ==
    IF l.eofOut
    THEN [l |-> l, panic |-> "Lexer.Clear: No clears allowed after EOF is emitted"]
    ELSE LET c == Lexer_clear(l, FALSE)
         IN  [l |-> [c.l EXCEPT !.cache = <<>>], panic |-> c.panic]

\* Mutation of Clear: no check of eofOut.
Lexer_Clear_unguarded(l) ==
    LET c == Lexer_clear(l, FALSE)
    IN  [l |-> c.l, panic |-> c.panic]

Lexer_Clear(l) ==
    IF l.eofOut
    THEN [l |-> l, panic |-> "Lexer.Clear: No clears allowed after EOF is emitted"]
    ELSE LET c == Lexer_clear(l, FALSE)
         IN  [l |-> c.l, panic |-> c.panic]

\* ------------------------------------------------------------ lexer Marker
Lexer_Marker(l) ==
    [markerID  |-> l.markerID,
     matchTail |-> l.matchTail,
     matchLen  |-> l.matchLen,
     nextFn    |-> l.nextFn]

\* Mutation of Valid: a marker is good only while nothing more is matched.
Marker_Valid_strict(l, m) ==
    ~l.eofOut /\ m.markerID = l.markerID /\ m.matchLen = l.matchLen

\* Mutation of Valid: eofOut is not looked at.
Marker_Valid_ignoresEOF(l, m) == m.markerID = l.markerID

Marker_Valid(l, m) == ~l.eofOut /\ m.markerID = l.markerID

\* Mutations of Apply: matchLen is not restored; matchTail is not restored;
\* an invalid marker is applied before the panic; a marker is good for one
\* Apply only; the lexer's current nextFn is returned.
Marker_Apply_keepsLen(l, m) ==
    IF ~(~l.eofOut /\ m.markerID = l.markerID)
    THEN [l |-> l, ret |-> Nil, panic |-> "Invalid marker"]
    ELSE [l |-> [l EXCEPT !.matchTail = m.matchTail], ret |-> m.nextFn, panic |-> NoPanic]

Marker_Apply_keepsTail(l, m) ==
    IF ~(~l.eofOut /\ m.markerID = l.markerID)
    THEN [l |-> l, ret |-> Nil, panic |-> "Invalid marker"]
    ELSE [l |-> [l EXCEPT !.matchLen = m.matchLen], ret |-> m.nextFn, panic |-> NoPanic]

Marker_Apply_thenPanics(l, m) ==
    IF ~(~l.eofOut /\ m.markerID = l.markerID)
    THEN [l     |-> [l EXCEPT !.matchTail = m.matchTail, !.matchLen = m.matchLen],
          ret   |-> Nil,
          panic |-> "Invalid marker"]
    ELSE [l     |-> [l EXCEPT !.matchTail = m.matchTail, !.matchLen = m.matchLen],
          ret   |-> m.nextFn,
          panic |-> NoPanic]

Marker_Apply_oneShot(l, m) ==
    IF ~(~l.eofOut /\ m.markerID = l.markerID)
    THEN [l |-> l, ret |-> Nil, panic |-> "Invalid marker"]
    ELSE [l     |-> [l EXCEPT !.matchTail = m.matchTail, !.matchLen = m.matchLen,
                              !.markerID = @ + 1],
          ret   |-> m.nextFn,
          panic |-> NoPanic]

Marker_Apply_currentFn(l, m) ==
    IF ~(~l.eofOut /\ m.markerID = l.markerID)
    THEN [l |-> l, ret |-> Nil, panic |-> "Invalid marker"]
    ELSE [l     |-> [l EXCEPT !.matchTail = m.matchTail, !.matchLen = m.matchLen],
          ret   |-> l.nextFn,
          panic |-> NoPanic]

Marker_Apply(l, m) ==
    IF Marker_Valid(l, m) = FALSE
    THEN [l |-> l, ret |-> Nil, panic |-> "Invalid marker"]
    ELSE [l     |-> [l EXCEPT !.matchTail = m.matchTail, !.matchLen = m.matchLen],
          ret   |-> m.nextFn,
          panic |-> NoPanic]


\* ================================================================== Parser
newParser(tokens, start) ==
    [input     |-> tokens,
     cache     |-> <<>>,
     matchTail |-> NoElem,
     matchLen  |-> 0,
     nextFn    |-> start,
     output    |-> <<>>,
     eof       |-> FALSE,
     eofOut    |-> FALSE,
     markerID  |-> 0]

\* Mutation of growPeek: an error other than io.EOF is passed over and the
\* next token is asked for.
RECURSIVE Parser_growPeek_skipsErr(_, _)
Parser_growPeek_skipsErr(p, n) ==
    IF Len(p.cache) - p.matchLen >= n THEN [p |-> p, ret |-> TRUE]
    ELSE IF p.eof THEN [p |-> p, ret |-> FALSE]
    ELSE LET rd == ReadRune(p.input)
             p1 == IF rd.v # NoRune
                   THEN [p EXCEPT !.cache = Append(@, [id |-> p.input.i, v |-> rd.v])]
                   ELSE p
             p2 == [p1 EXCEPT !.input = rd.input,
                              !.eof   = IF rd.err = EOF THEN TRUE ELSE @]
         IN  Parser_growPeek_skipsErr(p2, n)

RECURSIVE Parser_growPeek(_, _)
Parser_growPeek(p, n) ==
    IF Len(p.cache) - p.matchLen >= n THEN [p |-> p, ret |-> TRUE]
    ELSE IF p.eof THEN [p |-> p, ret |-> FALSE]
    ELSE LET rd == ReadRune(p.input)
             p1 == IF rd.v # NoRune
                   THEN [p EXCEPT !.cache = Append(@, [id |-> p.input.i, v |-> rd.v])]
                   ELSE p
             p2 == [p1 EXCEPT !.input = rd.input,
                              !.eof   = IF rd.err # NoErr THEN TRUE ELSE @]
         IN  Parser_growPeek(p2, n)

\* Mutation of peekHead: matchTail is followed whenever it is set.
Parser_peekHead_byTail(p) ==
    IF p.matchTail # NoElem THEN ElemNext(p.cache, p.matchTail)
    ELSE IF Len(p.cache) > 0 THEN 1 ELSE 0

Parser_peekHead(p) ==
    IF p.matchLen > 0 THEN ElemNext(p.cache, p.matchTail)
    ELSE IF Len(p.cache) > 0 THEN 1 ELSE 0

Parser_CanPeek(p, n) ==
    IF n < 1 THEN [p |-> p, ret |-> FALSE, panic |-> "Parser.CanPeek: range error"]
    ELSE IF p.eofOut THEN [p |-> p, ret |-> FALSE, panic |-> NoPanic]
    ELSE LET g == Parser_growPeek(p, n)
         IN  [p |-> g.p, ret |-> g.ret, panic |-> NoPanic]

Parser_Peek(p, n) ==
    IF n < 1 THEN [p |-> p, ret |-> NoRune, panic |-> "Parser.Peek: range error"]
    ELSE IF p.eofOut
    THEN [p |-> p, ret |-> NoRune,
          panic |-> "Parser.Peek: No tokens can be peeked after EOF is emitted"]
    ELSE LET g == Parser_growPeek(p, n)
             h == Parser_peekHead(g.p)
             i == IF h = 0 THEN 0 ELSE h + (n - 1)
         IN  IF ~g.ret
             THEN [p |-> g.p, ret |-> NoRune, panic |-> "Parser.Peek: No token available"]
             ELSE IF i < 1 \/ i > Len(g.p.cache)
             THEN [p |-> g.p, ret |-> NoRune, panic |-> "nil pointer dereference"]
             ELSE [p |-> g.p, ret |-> g.p.cache[i].v, panic |-> NoPanic]

Parser_Next(p) ==
    IF p.eofOut
    THEN [p |-> p, ret |-> NoRune,
          panic |-> "Parser.Next: No tokens can be matched after EOF is emitted"]
    ELSE LET g == Parser_growPeek(p, 1)
             h == Parser_peekHead(g.p)
         IN  IF ~g.ret
             THEN [p |-> g.p, ret |-> NoRune, panic |-> "Parser.Next: No token available"]
             ELSE IF h = 0
             THEN [p |-> [g.p EXCEPT !.matchTail = NoElem, !.matchLen = @ + 1],
                   ret |-> NoRune, panic |-> "nil pointer dereference"]
             ELSE [p |-> [g.p EXCEPT !.matchTail = g.p.cache[h].id, !.matchLen = @ + 1],
                   ret |-> g.p.cache[h].v, panic |-> NoPanic]

\* Mutation of clear: the last matched token stays at the front of the cache.
Parser_clear_keepsLast(p) ==
    IF p.matchLen > Len(p.cache)
    THEN [p |-> [p EXCEPT !.cache = <<>>, !.matchLen = @ - Len(p.cache)],
          panic |-> "nil pointer dereference"]
    ELSE [p |-> [p EXCEPT !.cache    = SubSeq(@, IF p.matchLen > 0 THEN p.matchLen ELSE 1, Len(@)),
                          !.matchLen = 0,
                          !.markerID = @ + 1],
          panic |-> NoPanic]

\* clear: removes the front element while matchLen > 0 (matchTail is left
\* as it is).
Parser_clear(p) ==
    IF p.matchLen > Len(p.cache)
    THEN [p |-> [p EXCEPT !.cache = <<>>, !.matchLen = @ - Len(p.cache)],
          panic |-> "nil pointer dereference"]
    ELSE [p |-> [p EXCEPT !.cache    = SubSeq(@, p.matchLen + 1, Len(@)),
                          !.matchLen = 0,
                          !.markerID = @ + 1],
          panic |-> NoPanic]

Parser_emit(p, ast) ==
    IF p.eofOut
    THEN [p |-> p, panic |-> "Parser: No further emits allowed after EOF is emitted"]
    ELSE IF ast = Nil
    THEN [p |-> [p EXCEPT !.matchTail = NoElem, !.matchLen = 0, !.cache = <<>>,
                          !.markerID = @ + 1, !.eof = TRUE, !.eofOut = TRUE,
                          !.output = Append(@, Nil)],
          panic |-> NoPanic]
    ELSE LET c == Parser_clear(p)
         IN  IF c.panic # NoPanic THEN c
             ELSE [p |-> [c.p EXCEPT !.output = Append(@, ast)], panic |-> NoPanic]

Parser_Emit(p, ast) ==
    IF p.eofOut
    THEN [p |-> p, panic |-> "Parser.Emit: No further emits allowed after EOF is emitted"]
    ELSE Parser_emit(p, ast)

Parser_EmitEOF(p) == Parser_Emit(p, Nil)

Parser_Clear(p) ==
    IF p.eofOut
    THEN [p |-> p, panic |-> "Parser.Clear: No clears allowed after EOF is emitted"]
    ELSE Parser_clear(p)

\* ----------------------------------------------------------- parser Marker
Parser_Marker(p) ==
    [markerID  |-> p.markerID,
     matchTail |-> p.matchTail,
     matchLen  |-> p.matchLen,
     nextFn    |-> p.nextFn]

Parser_CanReset(p, m) == ~p.eofOut /\ m.markerID = p.markerID

Parser_Reset(p, m) ==
    IF Parser_CanReset(p, m) = FALSE
    THEN [p |-> p, ret |-> Nil, panic |-> "Invalid marker"]
    ELSE [p     |-> [p EXCEPT !.matchTail = m.matchTail, !.matchLen = m.matchLen],
          ret   |-> p.nextFn,
          panic |-> NoPanic]

\* ------------------------------------------------------ results of Next()
\* tokenNexter.Next returns (tok, nil), (nil, errors.New(tok.Value())) or
\* (nil, io.EOF); astNexter.Next returns (ast, nil) or (nil, io.EOF).
ResItem(tok)  == [kind |-> "Item", typ |-> tok.typ, value |-> tok.value,
                  line |-> tok.line, column |-> tok.column]
ResError(tok) == [kind |-> "Error", typ |-> -1, value |-> tok.value, line |-> 0, column |-> 0]
ResAst(ast)   == [kind |-> "Item", typ |-> -1, value |-> ast, line |-> 0, column |-> 0]
ResEnd        == [kind |-> "End", typ |-> -1, value |-> <<>>, line |-> 0, column |-> 0]

\* ================================================================== state
VARIABLES
    engine,   \* which engine this run constructs: "lexer" or "parser"
    l,        \* the Lexer struct
    tn,       \* the tokenNexter struct: [next, eof]
    p,        \* the Parser struct
    an,       \* the astNexter struct: [next, eof]
    pc,       \* where the consumer's thread is: "idle" (outside Next()),
              \* "loop" (at the head of hasNext's loop), "fn" (inside a Fn)
    markers,  \* the markers the user code holds, by slot
    last,     \* the last call and what it returned: [op, arg, ret, panic]
    pending,  \* the items pushed on the output list that no Next() has returned yet
    eofs,     \* how many end-of-stream items have been pushed on the output list so far
    ends,     \* how many times Next() has returned io.EOF so far
    flushed   \* the elements that were matched when a flush took them, in flush order

vars == <<engine, l, tn, p, an, pc, markers, last, pending, eofs, ends, flushed>>

lexerVars  == <<l, tn>>
parserVars == <<p, an>>

Slots     == 1..MaxMarkers
EmptySlot == [used |-> FALSE, stale |-> FALSE,
              m  |-> [markerID |-> 0, matchTail |-> NoElem, matchLen |-> 0, nextFn |-> Nil],
              at |-> [nextFn |-> Nil, matchLen |-> 0, peeks |-> <<>>]]

Event(op, arg, ret, panic) == [op |-> op, arg |-> arg, ret |-> ret, panic |-> panic]

NoInput == [data |-> <<>>, i |-> 1]

Init ==
    /\ engine \in {"lexer", "parser"}
    /\ \E src \in Sources, start \in {"fn1", Nil} :
           IF engine = "lexer"
           THEN /\ l = newLexer([data |-> src, i |-> 1], start)
                /\ p = newParser(NoInput, Nil)
           ELSE /\ src \in TokenSources
                /\ l = newLexer(NoInput, Nil)
                /\ p = newParser([data |-> src, i |-> 1], start)
    /\ tn = [next |-> Nil, eof |-> FALSE]
    /\ an = [next |-> Nil, eof |-> FALSE]
    /\ pc = "idle"
    /\ markers = [s \in Slots |-> EmptySlot]
    /\ last = Event("new", 0, 0, NoPanic)
    /\ pending = <<>>
    /\ eofs = 0
    /\ ends = 0
    /\ flushed = <<>>

\* What an output list gained between two values of the struct.
Pushed(l0, l1) == SubSeq(l1.output, Len(l0.output) + 1, Len(l1.output))

EofCount(toks)  == Cardinality({i \in 1..Len(toks) : toks[i].typ = TEof})
NilCount(asts)  == Cardinality({i \in 1..Len(asts) : asts[i] = Nil})

\* The matched elements of an engine: the first matchLen of its cache.
MatchedElems(e) == SubSeq(e.cache, 1, e.matchLen)

\* Every marker taken so far has seen a flush.
Staled(ms) == [s \in Slots |-> [ms[s] EXCEPT !.stale = ms[s].used]]

\* What Next() returns for a token hasNext has taken off the output list.
ResultOf(tok) == IF tok.typ = TLexErr THEN ResError(tok) ELSE ResItem(tok)

\* ============================================================ lexer run
\* ------------------------------------------------------------ tokenNexter
\* Next() up to the loop of hasNext: a cached token or a recorded EOF ends
\* the call at once.
NexterNext ==
    /\ engine = "lexer"
    /\ pc = "idle"
    /\ ends < MaxEnds
    /\ IF tn.next # Nil
       THEN /\ last' = Event("Nexter.Next", 0, ResultOf(tn.next), NoPanic)
            /\ tn' = [tn EXCEPT !.next = Nil]
            /\ pending' = Tail(pending)
            /\ UNCHANGED <<pc, ends>>
       ELSE IF tn.eof
       THEN /\ last' = Event("Nexter.Next", 0, ResEnd, NoPanic)
            /\ ends' = ends + 1
            /\ UNCHANGED <<tn, pc, pending>>
       ELSE /\ pc' = "loop"
            /\ last' = Event("Nexter.enter", 0, 0, NoPanic)
            /\ UNCHANGED <<tn, pending, ends>>
    /\ UNCHANGED <<engine, flushed, l, markers, eofs, parserVars>>

\* Mutation of hasNext's loop: it runs whatever is on the output list.
HasNextLoop_anyway ==
    /\ engine = "lexer"
    /\ pc = "loop"
    /\ LET cp == IF l.nextFn # Nil THEN Lexer_CanPeek(l, 1)
                 ELSE [l |-> l, ret |-> FALSE, panic |-> NoPanic]
       IN  IF l.nextFn # Nil /\ cp.ret
           THEN /\ l' = cp.l
                /\ pc' = "fn"
                /\ last' = Event("call", l.nextFn, 0, NoPanic)
                /\ UNCHANGED <<markers, pending, eofs, flushed>>
           ELSE IF ~cp.l.eofOut
           THEN LET e == Lexer_EmitEOF(cp.l)
                IN  /\ l' = e.l
                    /\ pc' = "loop"
                    /\ last' = Event("autoEOF", 0, 0, e.panic)
                    /\ markers' = Staled(markers)
                    /\ pending' = pending \o Pushed(l, e.l)
                    /\ eofs' = eofs + EofCount(Pushed(l, e.l))
                    /\ flushed' = flushed \o MatchedElems(cp.l)
           ELSE /\ l' = cp.l
                /\ UNCHANGED <<pc, last, markers, pending, eofs, flushed>>
    /\ UNCHANGED <<engine, tn, ends, parserVars>>

\* One pass of the loop of hasNext with the output list empty: call the Fn,
\* or emit EOF, or neither.
HasNextLoop ==
    /\ engine = "lexer"
    /\ pc = "loop"
    /\ Len(l.output) = 0
    /\ LET cp == IF l.nextFn # Nil THEN Lexer_CanPeek(l, 1)
                 ELSE [l |-> l, ret |-> FALSE, panic |-> NoPanic]
       IN  IF l.nextFn # Nil /\ cp.ret
           THEN /\ l' = cp.l
                /\ pc' = "fn"
                /\ last' = Event("call", l.nextFn, 0, NoPanic)
                /\ UNCHANGED <<markers, pending, eofs, flushed>>
           ELSE IF ~cp.l.eofOut
           THEN LET e == Lexer_EmitEOF(cp.l)
                IN  /\ l' = e.l
                    /\ pc' = "loop"
                    /\ last' = Event("autoEOF", 0, 0, e.panic)
                    /\ markers' = Staled(markers)
                    /\ pending' = pending \o Pushed(l, e.l)
                    /\ eofs' = eofs + EofCount(Pushed(l, e.l))
                    /\ flushed' = flushed \o MatchedElems(cp.l)
           ELSE /\ l' = cp.l
                /\ UNCHANGED <<pc, last, markers, pending, eofs, flushed>>
    /\ UNCHANGED <<engine, tn, ends, parserVars>>

\* Mutation of the Fn's return: a nil result leaves the stored Fn in place.
FnReturn_keepsFn(f) ==
    /\ engine = "lexer"
    /\ pc = "fn"
    /\ l' = [l EXCEPT !.nextFn = IF f = Nil THEN @ ELSE f]
    /\ pc' = "loop"
    /\ last' = Event("return", f, 0, NoPanic)
    /\ UNCHANGED <<engine, flushed, tn, markers, pending, eofs, ends, parserVars>>

\* The Fn returns: its result becomes the stored continuation.
FnReturn(f) ==
    /\ engine = "lexer"
    /\ pc = "fn"
    /\ l' = [l EXCEPT !.nextFn = f]
    /\ pc' = "loop"
    /\ last' = Event("return", f, 0, NoPanic)
    /\ UNCHANGED <<engine, flushed, tn, markers, pending, eofs, ends, parserVars>>

\* Mutation of hasNext's exit: taking the TEof token does not set t.eof.
HasNextExit_forgetsEOF ==
    /\ engine = "lexer"
    /\ pc = "loop"
    /\ Len(l.output) # 0
    /\ LET tok == Head(l.output)
       IN  /\ l' = [l EXCEPT !.output = Tail(@)]
           /\ tn' = [tn EXCEPT !.next = Nil]
           /\ IF token_eof(tok)
              THEN /\ last' = Event("Nexter.Next", 0, ResEnd, NoPanic)
                   /\ ends' = ends + 1
              ELSE /\ last' = Event("Nexter.Next", 0, ResultOf(tok), NoPanic)
                   /\ ends' = ends
    /\ pc' = "idle"
    /\ pending' = Tail(pending)
    /\ UNCHANGED <<engine, flushed, markers, eofs, parserVars>>

\* The loop of hasNext ends with a token on the output list: hasNext takes
\* it off and Next() returns it, or io.EOF for the TEof token.
HasNextExit ==
    /\ engine = "lexer"
    /\ pc = "loop"
    /\ Len(l.output) # 0
    /\ LET tok == Head(l.output)
       IN  /\ l' = [l EXCEPT !.output = Tail(@)]
           /\ IF token_eof(tok)
              THEN /\ tn' = [tn EXCEPT !.eof = TRUE]
                   /\ last' = Event("Nexter.Next", 0, ResEnd, NoPanic)
                   /\ ends' = ends + 1
              ELSE /\ tn' = [tn EXCEPT !.next = Nil]
                   /\ last' = Event("Nexter.Next", 0, ResultOf(tok), NoPanic)
                   /\ ends' = ends
    /\ pc' = "idle"
    /\ pending' = Tail(pending)
    /\ UNCHANGED <<engine, flushed, markers, eofs, parserVars>>

\* ------------------------------------------------- user code inside a Fn
\* A call of an engine method from inside a Fn.  r is the method's result;
\* a panic unwinds the Fn and Next() (the stored continuation stays as it
\* was), and the consumer may call Next() again.
UserCall(op, arg, r, ret, flush) ==
    /\ engine = "lexer"
    /\ pc = "fn"
    /\ l' = r.l
    /\ last' = Event(op, arg, ret, r.panic)
    /\ pending' = pending \o Pushed(l, r.l)
    /\ eofs' = eofs + EofCount(Pushed(l, r.l))
    /\ markers' = IF flush /\ r.panic = NoPanic THEN Staled(markers) ELSE markers
    /\ flushed' = IF flush /\ r.panic = NoPanic THEN flushed \o MatchedElems(l) ELSE flushed
    /\ pc' = IF r.panic = NoPanic THEN "fn" ELSE "idle"
    /\ UNCHANGED <<engine, tn, ends, parserVars>>

\* The user code flushes at most MaxFlush times in one run; a flush tried
\* after EOF is emitted panics and counts for nothing.
FlushAllowed(e) == e.markerID < MaxFlush \/ e.eofOut

\* (last records which query ran, not its argument and result: what a query
\* returns in a state is what the method's operator yields there.)
FnCanPeek(n) == UserCall("CanPeek", 0, Lexer_CanPeek(l, n), 0, FALSE)
FnPeek(n)    == UserCall("Peek", 0, Lexer_Peek(l, n), 0, FALSE)
FnPeekToken  == UserCall("PeekToken", 0, Lexer_PeekToken(l), 0, FALSE)
FnNext       == LET r == Lexer_Next(l) IN UserCall("Next", 0, r, r.ret, FALSE)

FnEmitToken(t) ==
    /\ FlushAllowed(l)
    /\ UserCall("EmitToken", t, Lexer_EmitToken(l, t), 0, TRUE)
FnEmitType(t) ==
    /\ FlushAllowed(l)
    /\ UserCall("EmitType", t, Lexer_EmitType(l, t), 0, TRUE)
FnEmitError(e) ==
    /\ FlushAllowed(l)
    /\ UserCall("EmitError", e, Lexer_EmitError(l, e), 0, TRUE)
FnEmitEOF ==
    /\ FlushAllowed(l)
    /\ UserCall("EmitEOF", 0, Lexer_EmitEOF(l), 0, TRUE)
FnClear ==
    /\ FlushAllowed(l)
    /\ UserCall("Clear", 0, Lexer_Clear(l), 0, TRUE)

\* What Peek(i) returns in l0, for i = 1..MaxPeek (NoRune where it panics).
PeeksOf(l0) == [i \in 1..MaxPeek |-> Lexer_Peek(l0, i).ret]

\* The call before this one applied the marker of slot s, and went through.
JustApplied(s) ==
    /\ last.op \in {"Apply", "Reset"}
    /\ last.panic = NoPanic
    /\ last.arg.slot = s

\* The slot the next marker goes to: the first free one.
FreeSlot(s) == ~markers[s].used /\ \A t \in 1..(s - 1) : markers[t].used

\* The user code takes a marker and keeps it.
FnMarker ==
    /\ engine = "lexer"
    /\ pc = "fn"
    /\ \E s \in Slots :
         /\ FreeSlot(s)
         /\ markers' = [markers EXCEPT ![s] =
                [used |-> TRUE, stale |-> FALSE, m |-> Lexer_Marker(l),
                 at |-> [nextFn |-> l.nextFn, matchLen |-> l.matchLen, peeks |-> PeeksOf(l)]]]
         /\ last' = Event("Marker", s, 0, NoPanic)
    /\ UNCHANGED <<engine, flushed, l, tn, pc, pending, eofs, ends, parserVars>>

FnApply(s) ==
    /\ markers[s].used
    /\ LET r == Marker_Apply(l, markers[s].m)
       IN  UserCall("Apply", [slot |-> s, from |-> l.matchLen, again |-> JustApplied(s)],
                    r, r.ret, FALSE)

FnStep ==
    \/ \E n \in 0..MaxPeek : FnCanPeek(n) \/ FnPeek(n)
    \/ FnNext
    \/ FnPeekToken
    \/ \E t \in EmitTypes : FnEmitToken(t) \/ FnEmitType(t)
    \/ \E e \in ErrMsgs : FnEmitError(e)
    \/ FnEmitEOF
    \/ FnClear
    \/ FnMarker
    \/ \E s \in Slots : FnApply(s)
    \/ \E f \in Fns \cup {Nil} : FnReturn(f)

LexerNext ==
    \/ NexterNext
    \/ HasNextLoop
    \/ HasNextExit
    \/ FnStep

\* =========================================================== parser run
\* --------------------------------------------------------------- astNexter
AstNexterNext ==
    /\ engine = "parser"
    /\ pc = "idle"
    /\ ends < MaxEnds
    /\ IF an.next # Nil
       THEN /\ last' = Event("Nexter.Next", 0, ResAst(an.next), NoPanic)
            /\ an' = [an EXCEPT !.next = Nil]
            /\ pending' = Tail(pending)
            /\ UNCHANGED <<pc, ends>>
       ELSE IF an.eof
       THEN /\ last' = Event("Nexter.Next", 0, ResEnd, NoPanic)
            /\ ends' = ends + 1
            /\ UNCHANGED <<an, pc, pending>>
       ELSE /\ pc' = "loop"
            /\ last' = Event("Nexter.enter", 0, 0, NoPanic)
            /\ UNCHANGED <<an, pending, ends>>
    /\ UNCHANGED <<engine, flushed, p, markers, eofs, lexerVars>>

AstHasNextLoop ==
    /\ engine = "parser"
    /\ pc = "loop"
    /\ Len(p.output) = 0
    /\ LET cp == IF p.nextFn # Nil THEN Parser_CanPeek(p, 1)
                 ELSE [p |-> p, ret |-> FALSE, panic |-> NoPanic]
       IN  IF p.nextFn # Nil /\ cp.ret
           THEN /\ p' = cp.p
                /\ pc' = "fn"
                /\ last' = Event("call", p.nextFn, 0, NoPanic)
                /\ UNCHANGED <<markers, pending, eofs, flushed>>
           ELSE IF cp.p.eofOut = FALSE
           THEN LET e == Parser_EmitEOF(cp.p)
                IN  /\ p' = e.p
                    /\ pc' = "loop"
                    /\ last' = Event("autoEOF", 0, 0, e.panic)
                    /\ markers' = Staled(markers)
                    /\ pending' = pending \o Pushed(p, e.p)
                    /\ eofs' = eofs + NilCount(Pushed(p, e.p))
                    /\ flushed' = flushed \o MatchedElems(cp.p)
           ELSE /\ p' = cp.p
                /\ UNCHANGED <<pc, last, markers, pending, eofs, flushed>>
    /\ UNCHANGED <<engine, an, ends, lexerVars>>

PFnReturn(f) ==
    /\ engine = "parser"
    /\ pc = "fn"
    /\ p' = [p EXCEPT !.nextFn = f]
    /\ pc' = "loop"
    /\ last' = Event("return", f, 0, NoPanic)
    /\ UNCHANGED <<engine, flushed, an, markers, pending, eofs, ends, lexerVars>>

AstHasNextExit ==
    /\ engine = "parser"
    /\ pc = "loop"
    /\ Len(p.output) # 0
    /\ LET emit == Head(p.output)
       IN  /\ p' = [p EXCEPT !.output = Tail(@)]
           /\ IF emit = Nil
              THEN /\ an' = [an EXCEPT !.eof = TRUE]
                   /\ last' = Event("Nexter.Next", 0, ResEnd, NoPanic)
                   /\ ends' = ends + 1
              ELSE /\ an' = [an EXCEPT !.next = Nil]
                   /\ last' = Event("Nexter.Next", 0, ResAst(emit), NoPanic)
                   /\ ends' = ends
    /\ pc' = "idle"
    /\ pending' = Tail(pending)
    /\ UNCHANGED <<engine, flushed, markers, eofs, lexerVars>>

PUserCall(op, arg, r, ret, flush) ==
    /\ engine = "parser"
    /\ pc = "fn"
    /\ p' = r.p
    /\ last' = Event(op, arg, ret, r.panic)
    /\ pending' = pending \o Pushed(p, r.p)
    /\ eofs' = eofs + NilCount(Pushed(p, r.p))
    /\ markers' = IF flush /\ r.panic = NoPanic THEN Staled(markers) ELSE markers
    /\ flushed' = IF flush /\ r.panic = NoPanic THEN flushed \o MatchedElems(p) ELSE flushed
    /\ pc' = IF r.panic = NoPanic THEN "fn" ELSE "idle"
    /\ UNCHANGED <<engine, an, ends, lexerVars>>

PFnCanPeek(n) == PUserCall("CanPeek", 0, Parser_CanPeek(p, n), 0, FALSE)
PFnPeek(n)    == PUserCall("Peek", 0, Parser_Peek(p, n), 0, FALSE)
PFnNext       == LET r == Parser_Next(p) IN PUserCall("Next", 0, r, r.ret, FALSE)

PFnEmit(ast) ==
    /\ FlushAllowed(p)
    /\ PUserCall("Emit", ast, Parser_Emit(p, ast), 0, TRUE)
PFnEmitEOF ==
    /\ FlushAllowed(p)
    /\ PUserCall("EmitEOF", 0, Parser_EmitEOF(p), 0, TRUE)
PFnClear ==
    /\ FlushAllowed(p)
    /\ PUserCall("Clear", 0, Parser_Clear(p), 0, TRUE)

PPeeksOf(p0) == [i \in 1..MaxPeek |-> Parser_Peek(p0, i).ret]

PFnMarker ==
    /\ engine = "parser"
    /\ pc = "fn"
    /\ \E s \in Slots :
         /\ FreeSlot(s)
         /\ markers' = [markers EXCEPT ![s] =
                [used |-> TRUE, stale |-> FALSE, m |-> Parser_Marker(p),
                 at |-> [nextFn |-> p.nextFn, matchLen |-> p.matchLen, peeks |-> PPeeksOf(p)]]]
         /\ last' = Event("Marker", s, 0, NoPanic)
    /\ UNCHANGED <<engine, flushed, p, an, pc, pending, eofs, ends, lexerVars>>

PFnReset(s) ==
    /\ markers[s].used
    /\ LET r == Parser_Reset(p, markers[s].m)
       IN  PUserCall("Reset", [slot |-> s, from |-> p.matchLen, again |-> JustApplied(s)],
                     r, r.ret, FALSE)

PFnStep ==
    \/ \E n \in 0..MaxPeek : PFnCanPeek(n) \/ PFnPeek(n)
    \/ PFnNext
    \/ \E ast \in Asts \cup {Nil} : PFnEmit(ast)
    \/ PFnEmitEOF
    \/ PFnClear
    \/ PFnMarker
    \/ \E s \in Slots : PFnReset(s)
    \/ \E f \in Fns \cup {Nil} : PFnReturn(f)

ParserNext ==
    \/ AstNexterNext
    \/ AstHasNextLoop
    \/ AstHasNextExit
    \/ PFnStep

Next == LexerNext \/ ParserNext

Spec == Init /\ [][Next]_vars

TypeOK ==
    /\ pc \in {"idle", "loop", "fn"}
    /\ l.matchLen \in 0..(MaxInput + 1)


\* ================================================================ properties
\* The engine of this run, and its operations by their common names.
Eng == IF engine = "lexer" THEN l ELSE p

IsTerminal(x) == IF engine = "lexer" THEN x.typ = TEof ELSE x = Nil

\* What Next() owes the consumer for an entry of the output list.
Delivered(x) ==
    IF IsTerminal(x) THEN ResEnd
    ELSE IF engine = "parser" THEN ResAst(x)
    ELSE IF x.typ = TLexErr THEN ResError(x)
    ELSE ResItem(x)

EngPeek(i)    == IF engine = "lexer" THEN Lexer_Peek(l, i).ret ELSE Parser_Peek(p, i).ret
EngCanPeek(n) == IF engine = "lexer" THEN Lexer_CanPeek(l, n).ret ELSE Parser_CanPeek(p, n).ret
EngValid(m)   == IF engine = "lexer" THEN Marker_Valid(l, m) ELSE Parser_CanReset(p, m)

\* The last call was an Apply / Reset that went through.
Restored == last.op \in {"Apply", "Reset"} /\ last.panic = NoPanic

\* The methods of the engine of this run, on a struct e: [e, ret, panic].
CanPeekOf(e, n) ==
    IF engine = "lexer"
    THEN LET r == Lexer_CanPeek(e, n) IN [e |-> r.l, ret |-> r.ret, panic |-> r.panic]
    ELSE LET r == Parser_CanPeek(e, n) IN [e |-> r.p, ret |-> r.ret, panic |-> r.panic]

PeekOf(e, n) ==
    IF engine = "lexer"
    THEN LET r == Lexer_Peek(e, n) IN [e |-> r.l, ret |-> r.ret, panic |-> r.panic]
    ELSE LET r == Parser_Peek(e, n) IN [e |-> r.p, ret |-> r.ret, panic |-> r.panic]

NextOf(e) ==
    IF engine = "lexer"
    THEN LET r == Lexer_Next(e) IN [e |-> r.l, ret |-> r.ret, panic |-> r.panic]
    ELSE LET r == Parser_Next(e) IN [e |-> r.p, ret |-> r.ret, panic |-> r.panic]

MarkerOf(e)   == IF engine = "lexer" THEN Lexer_Marker(e) ELSE Parser_Marker(e)

ApplyOf(e, m) ==
    IF engine = "lexer"
    THEN LET r == Marker_Apply(e, m) IN [e |-> r.l, ret |-> r.ret, panic |-> r.panic]
    ELSE LET r == Parser_Reset(e, m) IN [e |-> r.p, ret |-> r.ret, panic |-> r.panic]

\* Clear() and EmitEOF() on a struct e: [e, panic].
ClearOf(e) ==
    IF engine = "lexer"
    THEN LET r == Lexer_Clear(e) IN [e |-> r.l, panic |-> r.panic]
    ELSE LET r == Parser_Clear(e) IN [e |-> r.p, panic |-> r.panic]

EmitEOFOf(e) ==
    IF engine = "lexer"
    THEN LET r == Lexer_EmitEOF(e) IN [e |-> r.l, panic |-> r.panic]
    ELSE LET r == Parser_EmitEOF(e) IN [e |-> r.p, panic |-> r.panic]

\* The engine after the CanPeek(1) of hasNext's loop.
AfterCanPeek1 == IF engine = "lexer" THEN Lexer_CanPeek(l, 1).l ELSE Parser_CanPeek(p, 1).p

\* The markers the user code holds.
Held == {markers[s].m : s \in {s \in Slots : markers[s].used}}

\* Every call the user code can make on a struct e, with the struct it
\* leaves and the panic it ends with: the calls of FnStep and PFnStep.
Calls(e) ==
    IF engine = "lexer"
    THEN  {LET r == Lexer_CanPeek(e, n)
           IN  [op |-> "CanPeek", e |-> r.l, panic |-> r.panic] : n \in 0..MaxPeek}
     \cup {LET r == Lexer_Peek(e, n)
           IN  [op |-> "Peek", e |-> r.l, panic |-> r.panic] : n \in 0..MaxPeek}
     \cup {LET r == Lexer_Next(e) IN [op |-> "Next", e |-> r.l, panic |-> r.panic]}
     \cup {LET r == Lexer_PeekToken(e) IN [op |-> "PeekToken", e |-> r.l, panic |-> r.panic]}
     \cup {LET r == Lexer_EmitToken(e, t)
           IN  [op |-> "EmitToken", e |-> r.l, panic |-> r.panic] : t \in EmitTypes}
     \cup {LET r == Lexer_EmitType(e, t)
           IN  [op |-> "EmitType", e |-> r.l, panic |-> r.panic] : t \in EmitTypes}
     \cup {LET r == Lexer_EmitError(e, err)
           IN  [op |-> "EmitError", e |-> r.l, panic |-> r.panic] : err \in ErrMsgs}
     \cup {LET r == Lexer_EmitEOF(e) IN [op |-> "EmitEOF", e |-> r.l, panic |-> r.panic]}
     \cup {LET r == Lexer_Clear(e) IN [op |-> "Clear", e |-> r.l, panic |-> r.panic]}
     \cup {[op |-> "Marker", e |-> e, panic |-> NoPanic]}
     \cup {LET r == Marker_Apply(e, m)
           IN  [op |-> "Apply", e |-> r.l, panic |-> r.panic] : m \in Held}
    ELSE  {LET r == Parser_CanPeek(e, n)
           IN  [op |-> "CanPeek", e |-> r.p, panic |-> r.panic] : n \in 0..MaxPeek}
     \cup {LET r == Parser_Peek(e, n)
           IN  [op |-> "Peek", e |-> r.p, panic |-> r.panic] : n \in 0..MaxPeek}
     \cup {LET r == Parser_Next(e) IN [op |-> "Next", e |-> r.p, panic |-> r.panic]}
     \cup {LET r == Parser_Emit(e, ast)
           IN  [op |-> "Emit", e |-> r.p, panic |-> r.panic] : ast \in Asts \cup {Nil}}
     \cup {LET r == Parser_EmitEOF(e) IN [op |-> "EmitEOF", e |-> r.p, panic |-> r.panic]}
     \cup {LET r == Parser_Clear(e) IN [op |-> "Clear", e |-> r.p, panic |-> r.panic]}
     \cup {[op |-> "Marker", e |-> e, panic |-> NoPanic]}
     \cup {LET r == Parser_Reset(e, m)
           IN  [op |-> "Reset", e |-> r.p, panic |-> r.panic] : m \in Held}

\* The source delivers no element at all.
NoElements ==
    \A i \in 1..Len(Eng.input.data) : Eng.input.data[i].v \in {NoRune, RuneError}

\* The panics of the engines, by what they report.
PostTerminalPanics ==
    {"Lexer.Peek: No runes can be peeked after EOF is emitted",
     "Lexer.Next: No runes can be matched after EOF is emitted",
     "Lexer.PeekToken: No token peeks allowed after EOF is emitted",
     "Lexer.EmitToken: No further emits allowed after EOF is emitted",
     "Lexer.EmitType: No further emits allowed after EOF is emitted",
     "Lexer.EmitError: No further emits allowed after EOF is emitted",
     "Lexer.Clear: No clears allowed after EOF is emitted",
     "Parser.Peek: No tokens can be peeked after EOF is emitted",
     "Parser.Next: No tokens can be matched after EOF is emitted",
     "Parser.Emit: No further emits allowed after EOF is emitted",
     "Parser.Clear: No clears allowed after EOF is emitted",
     "Parser: No further emits allowed after EOF is emitted"}
RangePanics        == {"Lexer.CanPeek: range error", "Lexer.Peek: range error",
                       "Parser.CanPeek: range error", "Parser.Peek: range error"}
UnavailablePanics  == {"Lexer.Peek: No rune available", "Lexer.Next: No rune available",
                       "Parser.Peek: No token available", "Parser.Next: No token available"}
InvalidMarkerPanic == "Invalid marker"

\* ------------------------------------------------------------------- C1
\* C1: the output list is handed out first in, first out: every Next() that
\* returns gives the head of the list (io.EOF for the end-of-stream entry,
\* which is the last entry of the list), and once Next() has returned
\* io.EOF, every later Next() returns io.EOF again and nothing else.
C1_AfterEnd ==
    /\ pending = Eng.output
    /\ (eofs >= 1 /\ pending # <<>>) => IsTerminal(pending[Len(pending)])
    /\ ends >= 1 =>
         /\ pc = "idle"
         /\ pending = <<>>
         /\ last.op = "Nexter.Next"
         /\ last.panic = NoPanic
         /\ last.ret.kind = "End"

C1_Fifo ==
    last'.op = "Nexter.Next" =>
        IF pending # <<>>
        THEN /\ last'.ret = Delivered(Head(pending))
             /\ pending' = Tail(pending)
             /\ ends = 0
        ELSE /\ last'.ret.kind = "End"
             /\ ends >= 1
             /\ ends' = ends + 1

C1_EndForever == [](C1_AfterEnd) /\ [][C1_Fifo]_vars

\* Next() has returned io.EOF a second time, after a stream on which the
\* user code flushed before the end.
C1_Witness ==
    /\ ends = 2
    /\ last.ret.kind = "End"
    /\ Eng.markerID >= 2

\* ------------------------------------------------------------------- C2
\* C2: the output list never holds more than one end-of-stream entry, that
\* entry is the last of the list, and no run pushes a second one.
C2_OneTerminal ==
    /\ eofs <= 1
    /\ \A i \in 1..Len(Eng.output) : IsTerminal(Eng.output[i]) => i = Len(Eng.output)
    /\ Cardinality({i \in 1..Len(Eng.output) : IsTerminal(Eng.output[i])}) <= 1
    /\ Eng.eofOut <=> (eofs = 1)

\* The end-of-stream entry lies on the list behind another entry and the
\* user code has tried one more emit, which panicked.
C2_Witness ==
    /\ eofs = 1
    /\ Len(Eng.output) >= 2
    /\ last.op \in {"EmitToken", "EmitType", "EmitError", "EmitEOF", "Emit"}
    /\ last.panic # NoPanic

\* ------------------------------------------------------------------- C3
\* C3: when hasNext finds nothing to return, no EOF emitted and no Fn to
\* call (nextFn is nil or CanPeek(1) fails), it emits EOF itself, once;
\* and Next() returns io.EOF for the first time only by taking the
\* end-of-stream entry off the output list, the one such entry of the run.
C3_EndHasTerminal ==
    /\ ends >= 1 => (eofs = 1 /\ pending = <<>>)
    /\ (pc = "loop" /\ Eng.output = <<>>) => ~Eng.eofOut
    /\ last.op = "autoEOF" =>
         /\ last.panic = NoPanic
         /\ eofs = 1
         /\ pending # <<>>
         /\ IsTerminal(pending[Len(pending)])

C3_DriverStep ==
    /\ (/\ pc = "loop"
        /\ Eng.output = <<>>
        /\ Eng.nextFn = Nil \/ ~EngCanPeek(1))
       => (eofs = 0 /\ eofs' = 1 /\ last'.op = "autoEOF" /\ ends' = ends)
    /\ (ends = 0 /\ ends' = 1)
       => (pending # <<>> /\ IsTerminal(Head(pending)) /\ pending' = <<>> /\ eofs = 1)

C3_DriverTerminal == [](C3_EndHasTerminal) /\ [][C3_DriverStep]_vars

\* A Fn ran, returned nil without emitting EOF, and hasNext has emitted it.
C3_Witness ==
    /\ last.op = "autoEOF"
    /\ Eng.nextFn = Nil
    /\ Eng.input.i > 1
    /\ Eng.markerID >= 2

\* ------------------------------------------------------------------- C4
\* C4: at the entry of every Fn that hasNext calls, EOF is not emitted and
\* the peek buffer holds at least one element; on a source that delivers
\* no element no Fn is ever called.
C4_PeekableAtEntry ==
    /\ last.op = "call" =>
         /\ pc = "fn"
         /\ last.arg # Nil
         /\ ~Eng.eofOut
         /\ Len(Eng.cache) - Eng.matchLen >= 1
    /\ NoElements => (pc # "fn" /\ last.op # "call")

\* A Fn is called again after an earlier Fn flushed and left a rune matched.
C4_Witness ==
    /\ last.op = "call"
    /\ Eng.markerID >= 1
    /\ Eng.matchLen >= 1

\* ------------------------------------------------------------------- C5
\* C5: matchLen is never negative and never more than the length of the
\* cache; when it is positive, matchTail is the matchLen-th element of the
\* cache; and the element Next() returns is the last of the matched ones.
C5_MatchedPrefix ==
    /\ Eng.matchLen >= 0
    /\ Eng.matchLen <= Len(Eng.cache)
    /\ Eng.matchLen > 0 => ElemPos(Eng.cache, Eng.matchTail) = Eng.matchLen
    /\ (last.op = "Next" /\ last.panic = NoPanic) =>
         /\ Eng.matchLen >= 1
         /\ last.ret = Eng.cache[Eng.matchLen].v

\* A marker taken with something matched is applied after more was matched.
C5_Witness ==
    /\ Restored
    /\ Eng.matchLen >= 1
    /\ last.arg.from > Eng.matchLen
    /\ Eng.markerID >= 1

\* ------------------------------------------------------------------- C6
\* C6: a marker taken before a flush (an emit, an error emit, a clear, an
\* EOF emit by the user code or by hasNext) is not valid in any state
\* after that flush.
C6_FlushInvalidates ==
    \A s \in Slots : markers[s].stale => ~EngValid(markers[s].m)

\* A marker was tried after two flushes, and refused.
C6_Witness ==
    /\ \E s \in Slots : markers[s].stale
    /\ last.op \in {"Apply", "Reset"}
    /\ last.panic = "Invalid marker"
    /\ ~Eng.eofOut
    /\ Eng.markerID = 2

\* ------------------------------------------------------------------- C7
\* C7: a marker taken before EOF is emitted that has seen no flush is valid,
\* whatever was peeked, matched, marked or applied and whichever Fn runs;
\* and a marker is valid exactly when its markerID is the engine's and EOF
\* is not emitted.
C7_ValidUntilFlush ==
    \A s \in Slots : markers[s].used =>
        /\ (~markers[s].stale /\ ~Eng.eofOut) => EngValid(markers[s].m)
        /\ EngValid(markers[s].m) <=>
               (markers[s].m.markerID = Eng.markerID /\ ~Eng.eofOut)

\* A marker is still unflushed at the entry of a later Fn, with more matched
\* than when it was taken.
C7_Witness ==
    /\ last.op = "call"
    /\ \E s \in Slots :
         /\ markers[s].used
         /\ ~markers[s].stale
         /\ Eng.matchLen > markers[s].m.matchLen
         /\ Eng.nextFn # markers[s].m.nextFn

\* ------------------------------------------------------------------- C8
\* C8: an Apply / Reset that goes through puts matchLen back to its value
\* when the marker was taken, leaves the cache as it is, and makes Peek(i)
\* return, for every i, what it returned when the marker was taken.
C8_State ==
    Restored =>
        LET at == markers[last.arg.slot].at
        IN  /\ Eng.matchLen = at.matchLen
            /\ \A i \in 1..MaxPeek : EngPeek(i) = at.peeks[i]

\* In every state, an Apply / Reset of a marker held that goes through sets
\* matchLen to the marker's and leaves the cache as it is.
C8_Call ==
    \A m \in Held :
        LET r == ApplyOf(Eng, m)
        IN  r.panic = NoPanic => (r.e.cache = Eng.cache /\ r.e.matchLen = m.matchLen)

C8_RoundTrip == C8_State /\ C8_Call

\* A marker is applied after three elements were matched past it.
C8_Witness ==
    /\ Restored
    /\ last.arg.from = Eng.matchLen + 3
    /\ EngPeek(1) = RuneAt(Eng.matchLen + 1)

\* ------------------------------------------------------------------- C9
\* C9: Marker.Apply of the lexer returns the Fn that was the lexer's nextFn
\* when the marker was taken; and the Fn hasNext calls is the one the last
\* Fn returned.
C9_State ==
    (engine = "lexer" /\ Restored) => last.ret = markers[last.arg.slot].at.nextFn

\* An Apply that goes through returns the Fn stored in the marker.  The
\* Fn hasNext called is the stored one, the stored one after a Fn returned
\* is what it returned, and no call the user code can make, nor hasNext's
\* CanPeek(1) and EmitEOF, changes the stored Fn.
C9_Calls ==
    engine = "lexer" =>
        /\ \A m \in Held :
             Marker_Apply(l, m).panic = NoPanic => Marker_Apply(l, m).ret = m.nextFn
        /\ last.op = "return" => l.nextFn = last.arg
        /\ last.op = "call" => last.arg = l.nextFn
        /\ \A c \in Calls(l) : c.e.nextFn = l.nextFn
        /\ AfterCanPeek1.nextFn = l.nextFn
        /\ EmitEOFOf(AfterCanPeek1).e.nextFn = l.nextFn

C9_ApplyReturnsMarkerFn == C9_State /\ C9_Calls

\* Apply runs in a Fn other than the marker's and returns the marker's.
C9_Witness ==
    /\ engine = "lexer"
    /\ Restored
    /\ last.ret # l.nextFn
    /\ last.ret # Nil

\* ------------------------------------------------------------------ C10
\* C10: Parser.Reset returns the ParserFn that was the parser's nextFn when
\* the marker was taken.
C10_ResetReturnsMarkerFn ==
    (engine = "parser" /\ Restored) => last.ret = markers[last.arg.slot].at.nextFn


\* ------------------------------------------------------------------ C11
\* C11: an Apply / Reset of a marker that is not valid panics with "Invalid
\* marker" and leaves the engine as it was: cache, matchTail, matchLen,
\* markerID, output list and nextFn.
C11_Call ==
    \A m \in Held :
        ~EngValid(m) =>
            ApplyOf(Eng, m) = [e |-> Eng, ret |-> Nil, panic |-> InvalidMarkerPanic]

\* The Apply / Reset of the run that panicked: the panic is "Invalid
\* marker", it ended the Fn, and the output list is what Next() is owed.
C11_After ==
    (last.op \in {"Apply", "Reset"} /\ last.panic # NoPanic) =>
        /\ last.panic = InvalidMarkerPanic
        /\ last.ret = Nil
        /\ ~EngValid(markers[last.arg.slot].m)
        /\ pc = "idle"
        /\ pending = Eng.output

C11_InvalidApplyIsNoOp == C11_Call /\ C11_After

\* A marker that a Clear made stale was tried with a rune matched and a
\* token waiting on the output list.
C11_Witness ==
    /\ last.op \in {"Apply", "Reset"}
    /\ last.panic = "Invalid marker"
    /\ ~Eng.eofOut
    /\ Eng.matchLen >= 1
    /\ Eng.matchLen # markers[last.arg.slot].m.matchLen

\* ------------------------------------------------------------------ C12
\* C12: a marker that was applied is still valid; applying it again at once
\* goes through, returns the same Fn and leaves the engine as the first
\* Apply left it.
C12_State ==
    Restored => EngValid(markers[last.arg.slot].m)

\* In the state an Apply / Reset of the run left, the same marker applied
\* again goes through, returns what the first returned and changes nothing.
C12_Again ==
    Restored =>
        ApplyOf(Eng, markers[last.arg.slot].m) =
            [e |-> Eng, ret |-> last.ret, panic |-> NoPanic]

C12_ApplyTwice == C12_State /\ C12_Again

\* A marker was applied twice in a row, the first time over matched runes.
C12_Witness ==
    /\ Restored
    /\ last.arg.again
    /\ Eng.matchLen >= 1
    /\ Len(Eng.cache) > Eng.matchLen


\* ------------------------------------------------------------------ C13
\* C13: once EOF is emitted, Peek(n) for n >= 1, Next, PeekToken, EmitToken,
\* EmitType, EmitError, EmitEOF and Clear (Peek, Next, Emit, EmitEOF, Clear
\* of the parser) panic with their "after EOF is emitted" message and
\* return the engine as it was; the panic ends the Fn and the Next() call
\* around it, and nothing is pushed on the output list.
C13_LexerRefuses ==
    /\ \A n \in 1..MaxPeek :
         /\ Lexer_Peek(l, n).panic = "Lexer.Peek: No runes can be peeked after EOF is emitted"
         /\ Lexer_Peek(l, n).l = l
    /\ Lexer_Next(l).panic = "Lexer.Next: No runes can be matched after EOF is emitted"
    /\ Lexer_Next(l).l = l
    /\ Lexer_PeekToken(l).panic = "Lexer.PeekToken: No token peeks allowed after EOF is emitted"
    /\ Lexer_PeekToken(l).l = l
    /\ \A t \in EmitTypes \cup {TLexErr, TUnknown} :
         /\ Lexer_EmitToken(l, t).panic \in PostTerminalPanics
         /\ Lexer_EmitToken(l, t).l = l
         /\ Lexer_EmitType(l, t).panic \in PostTerminalPanics
         /\ Lexer_EmitType(l, t).l = l
    /\ \A e \in ErrMsgs :
         /\ Lexer_EmitError(l, e).panic \in PostTerminalPanics
         /\ Lexer_EmitError(l, e).l = l
    /\ Lexer_EmitEOF(l).panic \in PostTerminalPanics
    /\ Lexer_EmitEOF(l).l = l
    /\ Lexer_Clear(l).panic = "Lexer.Clear: No clears allowed after EOF is emitted"
    /\ Lexer_Clear(l).l = l

C13_ParserRefuses ==
    /\ \A n \in 1..MaxPeek :
         /\ Parser_Peek(p, n).panic = "Parser.Peek: No tokens can be peeked after EOF is emitted"
         /\ Parser_Peek(p, n).p = p
    /\ Parser_Next(p).panic = "Parser.Next: No tokens can be matched after EOF is emitted"
    /\ Parser_Next(p).p = p
    /\ \A ast \in Asts \cup {Nil} :
         /\ Parser_Emit(p, ast).panic \in PostTerminalPanics
         /\ Parser_Emit(p, ast).p = p
    /\ Parser_EmitEOF(p).panic \in PostTerminalPanics
    /\ Parser_EmitEOF(p).p = p
    /\ Parser_Clear(p).panic = "Parser.Clear: No clears allowed after EOF is emitted"
    /\ Parser_Clear(p).p = p

C13_State ==
    Eng.eofOut => IF engine = "lexer" THEN C13_LexerRefuses ELSE C13_ParserRefuses

PostTerminalOps ==
    {"Peek", "Next", "PeekToken", "EmitToken", "EmitType", "EmitError", "EmitEOF",
     "Emit", "Clear"}

\* The call of the run that ended with EOF emitted: it emitted the EOF, or
\* it panicked, which ended the Fn with nothing pushed on the output list.
C13_After ==
    (Eng.eofOut /\ last.op \in PostTerminalOps) =>
        IF last.panic = NoPanic
        THEN /\ last.op \in {"EmitToken", "EmitType", "EmitEOF", "Emit"}
             /\ pending # <<>>
             /\ IsTerminal(pending[Len(pending)])
             /\ pc = "fn"
        ELSE /\ last.panic \in PostTerminalPanics \cup RangePanics
             /\ last.panic \in RangePanics => last.op = "Peek"
             /\ pc = "idle"
             /\ pending = Eng.output
             /\ eofs = 1

C13_PostTerminal == C13_State /\ C13_After

\* The user code emitted EOF behind a token and then tried to match a rune.
C13_Witness ==
    /\ Eng.eofOut
    /\ last.op = "Next"
    /\ last.panic \in PostTerminalPanics
    /\ pc = "idle"
    /\ Len(pending) = 2

\* ------------------------------------------------------------------ C14
\* C14: once EOF is emitted, CanPeek(n) for n >= 1 returns false, does not
\* panic, reads nothing from the source and leaves the engine as it was.
C14_State ==
    Eng.eofOut =>
        \A n \in 1..MaxPeek :
            IF engine = "lexer"
            THEN Lexer_CanPeek(l, n) = [l |-> l, ret |-> FALSE, panic |-> NoPanic]
            ELSE Parser_CanPeek(p, n) = [p |-> p, ret |-> FALSE, panic |-> NoPanic]

\* The CanPeek of the run with EOF emitted: it returned (or n < 1 was a
\* range error), and the Fn goes on after a return.
C14_After ==
    (Eng.eofOut /\ last.op = "CanPeek") =>
        /\ last.panic \in {NoPanic} \cup RangePanics
        /\ pc = IF last.panic = NoPanic THEN "fn" ELSE "idle"
        /\ pending = Eng.output

C14_CanPeekAfterEOF == C14_State /\ C14_After

\* CanPeek was called after EOF was emitted, with input left unread, and
\* returned.
C14_Witness ==
    /\ Eng.eofOut
    /\ last.op = "CanPeek"
    /\ last.panic = NoPanic
    /\ pc = "fn"
    /\ Eng.input.i <= Len(Eng.input.data)

\* ------------------------------------------------------------------ C15
\* C15 (as the code has it): once EOF is emitted, Apply / Reset of any
\* marker, taken before or after the EOF, panics with "Invalid marker" and
\* leaves the engine as it was.
C15_State ==
    Eng.eofOut =>
        \A s \in Slots : markers[s].used =>
            IF engine = "lexer"
            THEN Marker_Apply(l, markers[s].m) =
                     [l |-> l, ret |-> Nil, panic |-> InvalidMarkerPanic]
            ELSE Parser_Reset(p, markers[s].m) =
                     [p |-> p, ret |-> Nil, panic |-> InvalidMarkerPanic]

\* The Apply / Reset of the run with EOF emitted: it panicked with "Invalid
\* marker", which ended the Fn.
C15_After ==
    (Eng.eofOut /\ last.op \in {"Apply", "Reset"}) =>
        /\ last.panic = InvalidMarkerPanic
        /\ last.ret = Nil
        /\ pc = "idle"
        /\ pending = Eng.output

C15_ApplyAfterEOF == C15_State /\ C15_After

\* A marker taken after EOF was emitted was applied, and refused.
C15_Witness ==
    /\ Eng.eofOut
    /\ last.op \in {"Apply", "Reset"}
    /\ last.panic = InvalidMarkerPanic
    /\ markers[last.arg.slot].m.markerID = Eng.markerID

\* C15 (as stated): once EOF is emitted, Apply / Reset of any marker fails
\* with one of the "after EOF is emitted" panics.
C15_AsStated ==
    (Eng.eofOut /\ last.op \in {"Apply", "Reset"}) => last.panic \in PostTerminalPanics


\* ------------------------------------------------------------------ C16
\* C16: in every state, EOF emitted or not, CanPeek(n) and Peek(n) with
\* n < 1 panic with their "range error" and return the engine as it was,
\* nothing read from the source.
BadRanges == {-1, 0}

C16_State ==
    \A n \in BadRanges :
        IF engine = "lexer"
        THEN /\ Lexer_CanPeek(l, n).panic = "Lexer.CanPeek: range error"
             /\ Lexer_CanPeek(l, n).l = l
             /\ Lexer_Peek(l, n).panic = "Lexer.Peek: range error"
             /\ Lexer_Peek(l, n).l = l
        ELSE /\ Parser_CanPeek(p, n).panic = "Parser.CanPeek: range error"
             /\ Parser_CanPeek(p, n).p = p
             /\ Parser_Peek(p, n).panic = "Parser.Peek: range error"
             /\ Parser_Peek(p, n).p = p

\* The range error of the run: it came from CanPeek or Peek and ended the
\* Fn, with the output list as it was.
C16_After ==
    last.panic \in RangePanics =>
        /\ last.op \in {"CanPeek", "Peek"}
        /\ pc = "idle"
        /\ pending = Eng.output

C16_RangeError == C16_State /\ C16_After

\* Peek(0) was called after EOF was emitted: the range error comes first.
C16_Witness ==
    /\ last.op = "Peek"
    /\ last.panic \in RangePanics
    /\ Eng.eofOut

\* ------------------------------------------------------------------ C17
\* C17: before EOF is emitted, Peek(n) for n >= 1 panics with "No rune
\* available" exactly when CanPeek(n) returns false, and Next exactly when
\* CanPeek(1) returns false, and they do not panic otherwise; the call that
\* panics leaves the engine as CanPeek leaves it: matchLen, matchTail,
\* markerID, output list and nextFn as before.
SameButRead(a, b) ==
    /\ a.matchLen = b.matchLen
    /\ a.matchTail = b.matchTail
    /\ a.markerID = b.markerID
    /\ a.output = b.output
    /\ a.nextFn = b.nextFn
    /\ a.eofOut = b.eofOut

C17_Lexer ==
    /\ \A n \in 1..(MaxPeek + 1) :
         LET cp == Lexer_CanPeek(l, n)
             pk == Lexer_Peek(l, n)
         IN  /\ pk.panic = IF cp.ret THEN NoPanic ELSE "Lexer.Peek: No rune available"
             /\ pk.l = cp.l
             /\ SameButRead(pk.l, l)
    /\ LET cp == Lexer_CanPeek(l, 1)
           nx == Lexer_Next(l)
       IN  /\ nx.panic = IF cp.ret THEN NoPanic ELSE "Lexer.Next: No rune available"
           /\ ~cp.ret => (nx.l = cp.l /\ SameButRead(nx.l, l))

C17_Parser ==
    /\ \A n \in 1..(MaxPeek + 1) :
         LET cp == Parser_CanPeek(p, n)
             pk == Parser_Peek(p, n)
         IN  /\ pk.panic = IF cp.ret THEN NoPanic ELSE "Parser.Peek: No token available"
             /\ pk.p = cp.p
             /\ SameButRead(pk.p, p)
    /\ LET cp == Parser_CanPeek(p, 1)
           nx == Parser_Next(p)
       IN  /\ nx.panic = IF cp.ret THEN NoPanic ELSE "Parser.Next: No token available"
           /\ ~cp.ret => (nx.p = cp.p /\ SameButRead(nx.p, p))

C17_State ==
    ~Eng.eofOut => IF engine = "lexer" THEN C17_Lexer ELSE C17_Parser

\* The "none available" panic of the run: it came from Peek or Next before
\* EOF was emitted, with the source at its end, and ended the Fn.
C17_After ==
    last.panic \in UnavailablePanics =>
        /\ last.op \in {"Peek", "Next"}
        /\ ~Eng.eofOut
        /\ Eng.eof
        /\ pending = Eng.output
        /\ pc = "idle"

C17_Unavailable == C17_State /\ C17_After

\* Next was called with every rune of the source matched, and panicked.
C17_Witness ==
    /\ last.op = "Next"
    /\ last.panic \in UnavailablePanics
    /\ Eng.matchLen >= 2
    /\ Eng.eof

\* ------------------------------------------------------------------ C18
\* C18: when CanPeek(n) returns true, Peek(k) returns for every k in 1..n
\* the k-th element of the cache behind the matched ones, which is an
\* element of the source, in the order of the source; and Peek(k) returns
\* the same element again after any further CanPeek or Peek.
InSourceOrder(e) ==
    /\ \A i \in 1..Len(e.cache) :
         /\ e.cache[i].id \in 1..Len(e.input.data)
         /\ e.cache[i].id < e.input.i
         /\ e.cache[i].v = e.input.data[e.cache[i].id].v
    /\ \A i, j \in 1..Len(e.cache) : i < j => e.cache[i].id < e.cache[j].id

C18_Lexer ==
    \A n \in 1..MaxPeek : Lexer_CanPeek(l, n).ret =>
        \A k \in 1..n :
            LET pk == Lexer_Peek(l, k)
            IN  /\ pk.panic = NoPanic
                /\ pk.ret = pk.l.cache[l.matchLen + k].v
                /\ InSourceOrder(pk.l)
                /\ \A j \in 1..MaxPeek :
                     /\ Lexer_Peek(Lexer_Peek(pk.l, j).l, k).ret = pk.ret
                     /\ Lexer_Peek(Lexer_CanPeek(pk.l, j).l, k).ret = pk.ret

C18_Parser ==
    \A n \in 1..MaxPeek : Parser_CanPeek(p, n).ret =>
        \A k \in 1..n :
            LET pk == Parser_Peek(p, k)
            IN  /\ pk.panic = NoPanic
                /\ pk.ret = pk.p.cache[p.matchLen + k].v
                /\ InSourceOrder(pk.p)
                /\ \A j \in 1..MaxPeek :
                     /\ Parser_Peek(Parser_Peek(pk.p, j).p, k).ret = pk.ret
                     /\ Parser_Peek(Parser_CanPeek(pk.p, j).p, k).ret = pk.ret

C18_PeekStable ==
    IF engine = "lexer" THEN C18_Lexer ELSE C18_Parser

\* Peek returned with one element matched and two more behind it.
C18_Witness ==
    /\ last.op = "Peek"
    /\ last.panic = NoPanic
    /\ Eng.matchLen >= 1
    /\ Len(Eng.cache) - Eng.matchLen >= 2

\* ------------------------------------------------------------------ C19
\* C19: Next and then Clear take the matched elements off the front of the
\* cache and nothing else: Peek(i) after them returns what Peek(i + 1)
\* returned before them, and nothing more is read from the source than
\* Next read.
C19_Lexer ==
    LET nx == Lexer_Next(l)
        cl == Lexer_Clear(nx.l)
    IN  nx.panic = NoPanic =>
            /\ cl.panic = NoPanic
            /\ cl.l.matchLen = 0
            /\ cl.l.cache = SubSeq(nx.l.cache, nx.l.matchLen + 1, Len(nx.l.cache))
            /\ cl.l.input = nx.l.input
            /\ \A i \in 1..MaxPeek :
                 /\ Lexer_Peek(cl.l, i).ret = Lexer_Peek(l, i + 1).ret
                 /\ Lexer_Peek(cl.l, i).panic = Lexer_Peek(l, i + 1).panic

C19_Parser ==
    LET nx == Parser_Next(p)
        cl == Parser_Clear(nx.p)
    IN  nx.panic = NoPanic =>
            /\ cl.panic = NoPanic
            /\ cl.p.matchLen = 0
            /\ cl.p.cache = SubSeq(nx.p.cache, nx.p.matchLen + 1, Len(nx.p.cache))
            /\ cl.p.input = nx.p.input
            /\ \A i \in 1..MaxPeek :
                 /\ Parser_Peek(cl.p, i).ret = Parser_Peek(p, i + 1).ret
                 /\ Parser_Peek(cl.p, i).panic = Parser_Peek(p, i + 1).panic

C19_State ==
    ~Eng.eofOut => IF engine = "lexer" THEN C19_Lexer ELSE C19_Parser

\* In the state a Next of the run left, Clear goes through, takes the
\* matched elements off the cache, reads nothing and leaves every element
\* that was there to peek where Peek finds it.
C19_After ==
    (last.op = "Next" /\ last.panic = NoPanic) =>
        LET cl == ClearOf(Eng)
        IN  /\ pc = "fn"
            /\ cl.panic = NoPanic
            /\ cl.e.matchLen = 0
            /\ cl.e.cache = SubSeq(Eng.cache, Eng.matchLen + 1, Len(Eng.cache))
            /\ cl.e.input = Eng.input
            /\ \A i \in 1..MaxPeek :
                 (Len(Eng.cache) - Eng.matchLen >= i) =>
                     PeekOf(cl.e, i) = [e |-> cl.e, ret |-> EngPeek(i), panic |-> NoPanic]

C19_NextThenClear == C19_State /\ C19_After

\* Clear ran with two peeked elements behind the matched ones, and they
\* are still in the cache.
C19_Witness ==
    /\ last.op = "Clear"
    /\ last.panic = NoPanic
    /\ Len(Eng.cache) >= 2
    /\ Eng.cache[1].id >= 2


\* ------------------------------------------------------------------ C20
\* C20 (as stated): the Next() that takes an error token off the output
\* list returns an error whose text is the message handed to EmitError.
C20_ErrorIsMessage ==
    (engine = "lexer" /\ last.op = "Nexter.Next" /\ last.ret.kind = "Error") =>
        last.ret.value \in {<<e>> : e \in ErrMsgs}

\* What the code does: the text is "line:column: " and then the message;
\* the error does not end the stream (EmitError leaves eofOut as it is,
\* Next() does not record EOF) and the next Next() goes on with the output
\* list or the Fn.
C20_ErrorState ==
    (engine = "lexer" /\ last.op = "Nexter.Next" /\ last.ret.kind = "Error") =>
        /\ \E e \in ErrMsgs, ln \in 0..(MaxInput + 1), col \in 0..(MaxInput + 1) :
               last.ret.value = Sprintf_pos(ln, col, e)
        /\ ~tn.eof
        /\ tn.next = Nil
        /\ ends = 0
        /\ pc = "idle"
        /\ l.eofOut => (pending # <<>> /\ pending[Len(pending)].typ = TEof)

C20_ErrorStep ==
    /\ (last'.op = "EmitError" /\ last'.panic = NoPanic) =>
           /\ ~l'.eofOut
           /\ pending' = Append(pending, l'.output[Len(l'.output)])
           /\ pending'[Len(pending')].typ = TLexErr
    /\ (engine = "lexer" /\ last.op = "Nexter.Next" /\ last.ret.kind = "Error") =>
           (last'.op = "Nexter.enter" /\ pc' = "loop")

C20_ErrorGoesOn == [](C20_ErrorState) /\ [][C20_ErrorStep]_vars

\* Next() returned an error while a token emitted after it waits on the
\* output list and EOF is not emitted.
C20_Witness ==
    /\ engine = "lexer"
    /\ last.op = "Nexter.Next"
    /\ last.ret.kind = "Error"
    /\ ~l.eofOut
    /\ Len(pending) = 1
    /\ pending[1].typ = TStart

\* ------------------------------------------------------------------ C21
\* C21: the output list is a queue from the emits to Next(): a call that
\* goes through of EmitToken, EmitType, EmitError, EmitEOF (Emit, EmitEOF of
\* the parser) or the EOF emit of hasNext puts one entry behind the entries
\* already on the list, however many emits one Fn makes; Next() returns
\* what it owes for the entry at the front and takes that entry off; and no
\* other step touches the list.  So the results of Next(), up to the first
\* io.EOF, are the entries in the order of their emits, each one once.
EmitOps == {"EmitToken", "EmitType", "EmitError", "EmitEOF", "Emit", "autoEOF"}

C21_Step ==
    /\ last'.op = "Nexter.Next" =>
         IF ends' = ends
         THEN /\ Eng.output # <<>>
              /\ ~IsTerminal(Head(Eng.output))
              /\ last'.ret = Delivered(Head(Eng.output))
              /\ Eng'.output = Tail(Eng.output)
         ELSE IF ends = 0
         THEN /\ Len(Eng.output) = 1
              /\ IsTerminal(Head(Eng.output))
              /\ Eng'.output = <<>>
         ELSE Eng.output = <<>> /\ Eng'.output = <<>>
    /\ (last'.op \in EmitOps /\ last'.panic = NoPanic) =>
         /\ Len(Eng'.output) = Len(Eng.output) + 1
         /\ SubSeq(Eng'.output, 1, Len(Eng.output)) = Eng.output
         /\ LET x == Eng'.output[Len(Eng'.output)]
            IN  CASE last'.op \in {"EmitToken", "EmitType"} -> x.typ = last'.arg
                  [] last'.op = "EmitError" -> x.typ = TLexErr
                  [] last'.op = "Emit" -> x = last'.arg
                  [] OTHER -> IsTerminal(x)
    /\ (last'.op # "Nexter.Next" /\ ~(last'.op \in EmitOps /\ last'.panic = NoPanic)) =>
         Eng'.output = Eng.output

C21_QueueOrder == [][C21_Step]_vars

\* Next() returned the first of two different entries that one Fn call
\* emitted; the second waits at the front of the list.
C21_Witness ==
    /\ last.op = "Nexter.Next"
    /\ last.ret.kind = "Item"
    /\ Len(Eng.output) = 1
    /\ ~IsTerminal(Eng.output[1])
    /\ Delivered(Eng.output[1]) # last.ret

\* ------------------------------------------------------------------ C22
\* C22: once nextFn is nil (the Fn returned nil, or no Fn was given), it
\* stays nil and hasNext calls no Fn any more: no engine method runs, the
\* only steps are hasNext's EOF emit and the returns of Next().  The
\* entries emitted before are still on the output list, the EOF entry goes
\* behind them, and Next() returns io.EOF for the first time only when it
\* is the one entry left.
DriverOps == {"Nexter.enter", "Nexter.Next", "autoEOF"}

C22_State ==
    /\ last.op = "return" => (Eng.nextFn = last.arg /\ pc = "loop")
    /\ Eng.nextFn = Nil =>
         /\ pc # "fn"
         /\ last.op \in DriverOps \cup {"new", "return"}

C22_Step ==
    Eng.nextFn = Nil =>
        /\ Eng'.nextFn = Nil
        /\ last'.op \in DriverOps
        /\ last'.op = "autoEOF" =>
             /\ Eng.output = <<>>
             /\ Len(Eng'.output) = 1
             /\ IsTerminal(Eng'.output[1])
        /\ last'.op # "autoEOF" =>
             \/ Eng'.output = Eng.output
             \/ /\ Eng.output # <<>>
                /\ Eng'.output = Tail(Eng.output)
                /\ last'.ret = Delivered(Head(Eng.output))
        /\ (ends = 0 /\ ends' = 1) => Eng'.output = <<>>

C22_NilStopsFns == [](C22_State) /\ [][C22_Step]_vars

\* A Fn emitted two entries and returned nil with input left unread; Next()
\* has returned the first, the second waits and EOF is not emitted yet.
C22_Witness ==
    /\ Eng.nextFn = Nil
    /\ last.op = "Nexter.Next"
    /\ last.ret.kind = "Item"
    /\ Len(Eng.output) = 1
    /\ ~IsTerminal(Eng.output[1])
    /\ ~Eng.eofOut
    /\ Eng.input.i <= Len(Eng.input.data)

\* ------------------------------------------------------------------ C23
\* C23: the emit of EOF (EmitEOF, EmitToken / EmitType of TEof, Emit(nil),
\* or hasNext's own) empties the cache, matched and peeked elements alike,
\* sets matchLen to 0 and matchTail to nil, sets eof and eofOut and pushes
\* the EOF entry, which carries no text, and reads nothing from the source
\* (hasNext's CanPeek(1) before its own EmitEOF may); from then on the cache
\* stays empty and nothing is read from the source.
C23_Lexer ==
    LET e == Lexer_EmitEOF(l)
    IN  /\ e.panic = NoPanic
        /\ e.l.cache = <<>>
        /\ e.l.matchLen = 0
        /\ e.l.matchTail = NoElem
        /\ e.l.eof
        /\ e.l.eofOut
        /\ e.l.input = l.input
        /\ Len(e.l.output) = Len(l.output) + 1
        /\ e.l.output[Len(e.l.output)].typ = TEof
        /\ e.l.output[Len(e.l.output)].value = <<>>

C23_Parser ==
    LET e == Parser_EmitEOF(p)
    IN  /\ e.panic = NoPanic
        /\ e.p.cache = <<>>
        /\ e.p.matchLen = 0
        /\ e.p.matchTail = NoElem
        /\ e.p.eof
        /\ e.p.eofOut
        /\ e.p.input = p.input
        /\ e.p.output = Append(p.output, Nil)


C23_State ==
    /\ ~Eng.eofOut => IF engine = "lexer" THEN C23_Lexer ELSE C23_Parser
    /\ Eng.eofOut =>
         /\ Eng.cache = <<>>
         /\ Eng.matchLen = 0
         /\ Eng.matchTail = NoElem
         /\ Eng.eof

\* Of the calls the user code can make, only an emit that goes through sets
\* eofOut, reading nothing and pushing one entry, the EOF entry, without
\* text; with eofOut set every call leaves it set, the cache empty and the
\* source unread.  The EmitEOF of hasNext, after its CanPeek(1), does the
\* same.
C23_Calls ==
    /\ \A c \in Calls(Eng) :
         /\ (~Eng.eofOut /\ c.e.eofOut) =>
              /\ c.op \in {"EmitToken", "EmitType", "EmitEOF", "Emit"}
              /\ c.panic = NoPanic
              /\ c.e.input = Eng.input
              /\ Len(c.e.output) = Len(Eng.output) + 1
              /\ IsTerminal(c.e.output[Len(c.e.output)])
              /\ engine = "lexer" => c.e.output[Len(c.e.output)].value = <<>>
         /\ Eng.eofOut =>
              /\ c.e.eofOut
              /\ c.e.input = Eng.input
              /\ c.e.cache = <<>>
         /\ c.e.input # Eng.input => ~Eng.eofOut
    /\ ~Eng.eofOut =>
         LET e == EmitEOFOf(AfterCanPeek1)
         IN  /\ e.panic = NoPanic
             /\ e.e.eofOut
             /\ e.e.cache = <<>>
             /\ e.e.input = AfterCanPeek1.input
             /\ Len(e.e.output) = Len(Eng.output) + 1
             /\ IsTerminal(e.e.output[Len(e.e.output)])
             /\ engine = "lexer" => e.e.output[Len(e.e.output)].value = <<>>

C23_EmitEOF == C23_State /\ C23_Calls

\* The lexer's Fn emitted EOF as its first flush with three runes read, one
\* of them matched and two peeked (line and column count the one rune
\* cleared); the parser's with all its tokens read.
C23_Witness ==
    /\ last.op = "EmitEOF"
    /\ last.panic = NoPanic
    /\ Eng.markerID = 1
    /\ Eng.cache = <<>>
    /\ Eng.input.i = MaxInput + 1
    /\ Len(Eng.input.data) = MaxInput
    /\ engine = "lexer" => (l.line = 1 /\ l.column = 2)
    /\ \A i \in 1..MaxInput : Eng.input.data[i].v = RuneAt(i)

\* ------------------------------------------------------------------ C24
\* C24: markerID never goes down and moves only by a flush: a call that
\* goes through of EmitToken, EmitType, EmitError, EmitEOF, Clear (Emit,
\* EmitEOF, Clear of the parser) or hasNext's EOF emit adds exactly one,
\* with or without matched elements; CanPeek, Peek, Next, PeekToken,
\* Marker, Apply / Reset, the Fn's call and return, Next() and every call
\* that panics leave it as it is; and once EOF is emitted it stays.
FlushOps == {"EmitToken", "EmitType", "EmitError", "EmitEOF", "Emit", "Clear", "autoEOF"}

C24_Lexer ==
    /\ \A t \in EmitTypes \cup {TUnknown} :
         /\ Lexer_EmitToken(l, t).l.markerID = l.markerID + 1
         /\ Lexer_EmitType(l, t).l.markerID = l.markerID + 1
    /\ \A e \in ErrMsgs : Lexer_EmitError(l, e).l.markerID = l.markerID + 1
    /\ Lexer_EmitEOF(l).l.markerID = l.markerID + 1
    /\ Lexer_Clear(l).l.markerID = l.markerID + 1
    /\ \A n \in 0..MaxPeek :
         /\ Lexer_CanPeek(l, n).l.markerID = l.markerID
         /\ Lexer_Peek(l, n).l.markerID = l.markerID
    /\ Lexer_Next(l).l.markerID = l.markerID
    /\ Lexer_PeekToken(l).l.markerID = l.markerID
    /\ Lexer_Marker(l).markerID = l.markerID
    /\ \A s \in Slots : Marker_Apply(l, markers[s].m).l.markerID = l.markerID

C24_Parser ==
    /\ \A ast \in Asts \cup {Nil} : Parser_Emit(p, ast).p.markerID = p.markerID + 1
    /\ Parser_EmitEOF(p).p.markerID = p.markerID + 1
    /\ Parser_Clear(p).p.markerID = p.markerID + 1
    /\ \A n \in 0..MaxPeek :
         /\ Parser_CanPeek(p, n).p.markerID = p.markerID
         /\ Parser_Peek(p, n).p.markerID = p.markerID
    /\ Parser_Next(p).p.markerID = p.markerID
    /\ Parser_Marker(p).markerID = p.markerID
    /\ \A s \in Slots : Parser_Reset(p, markers[s].m).p.markerID = p.markerID

C24_State ==
    /\ Eng.markerID >= 0
    /\ ~Eng.eofOut => IF engine = "lexer" THEN C24_Lexer ELSE C24_Parser

\* Every call the user code can make leaves markerID one higher if it is a
\* flush that goes through, and as it is otherwise: when it is no flush,
\* when it panics, when EOF is emitted.  hasNext's CanPeek(1) leaves it
\* and its EmitEOF adds one.
C24_Calls ==
    /\ \A c \in Calls(Eng) :
         /\ c.e.markerID = IF c.op \in FlushOps /\ c.panic = NoPanic
                           THEN Eng.markerID + 1
                           ELSE Eng.markerID
         /\ Eng.eofOut => c.e.markerID = Eng.markerID
    /\ AfterCanPeek1.markerID = Eng.markerID
    /\ ~Eng.eofOut => EmitEOFOf(AfterCanPeek1).e.markerID = Eng.markerID + 1

C24_EpochPerFlush == C24_State /\ C24_Calls

\* Clear went through as the second flush of a run in which nothing was
\* ever matched at a flush: every element read is still in the cache.
C24_Witness ==
    /\ last.op = "Clear"
    /\ last.panic = NoPanic
    /\ Eng.markerID = 2
    /\ Len(Eng.cache) >= 1
    /\ Len(Eng.cache) = Eng.input.i - 1

\* ------------------------------------------------------------------ C25
\* C25: before EOF is emitted, an emit of anything but EOF leaves the
\* engine exactly as Clear followed by a push of the emitted entry on the
\* back of the output list: the same cache, matchLen 0, the same matchTail,
\* markerID one more, the same line and column, eof, eofOut, nextFn and
\* input.
NonTerminalTypes == (EmitTypes \cup {TUnknown, TLexErr}) \ {TEof}

\* e is c with one entry of type typ more on the back of its output list.
ClearThenPush(e, c, typ) ==
    /\ Len(e.output) = Len(c.output) + 1
    /\ e.output[Len(e.output)].typ = typ
    /\ e = [c EXCEPT !.output = Append(@, e.output[Len(e.output)])]

C25_Lexer ==
    LET c == Lexer_Clear(l)
    IN  /\ c.panic = NoPanic
        /\ c.l.matchLen = 0
        /\ c.l.markerID = l.markerID + 1
        /\ c.l.output = l.output
        /\ \A t \in NonTerminalTypes :
             /\ Lexer_EmitToken(l, t).panic = NoPanic
             /\ ClearThenPush(Lexer_EmitToken(l, t).l, c.l, t)
             /\ Lexer_EmitType(l, t).panic = NoPanic
             /\ ClearThenPush(Lexer_EmitType(l, t).l, c.l, t)
        /\ \A e \in ErrMsgs :
             /\ Lexer_EmitError(l, e).panic = NoPanic
             /\ ClearThenPush(Lexer_EmitError(l, e).l, c.l, TLexErr)

C25_Parser ==
    LET c == Parser_Clear(p)
    IN  /\ c.panic = NoPanic
        /\ c.p.matchLen = 0
        /\ c.p.markerID = p.markerID + 1
        /\ c.p.output = p.output
        /\ \A ast \in Asts :
             /\ Parser_Emit(p, ast).panic = NoPanic
             /\ Parser_Emit(p, ast).p = [c.p EXCEPT !.output = Append(@, ast)]

C25_EmitIsClearThenPush ==
    ~Eng.eofOut => IF engine = "lexer" THEN C25_Lexer ELSE C25_Parser

\* An emit of a token / an AST went through with elements matched and
\* elements peeked: the front of the cache is gone, the rest is there.
C25_Witness ==
    /\ \/ last.op = "EmitToken" /\ last.arg # TEof
       \/ last.op = "Emit" /\ last.arg # Nil
    /\ last.panic = NoPanic
    /\ Eng.cache # <<>>
    /\ Eng.cache[1].id >= 2

\* ------------------------------------------------------------------ C26
\* C26: EmitToken(TEof) and EmitType(TEof) of the lexer, and Emit(nil) of
\* the parser, leave the engine exactly as EmitEOF() does from the same
\* state: before EOF is emitted the matched elements are dropped, the EOF
\* entry carries no text and the engine is as C23 has it; after it all of
\* them panic and change nothing.
C26_Lexer ==
    LET eof == Lexer_EmitEOF(l)
        tok == Lexer_EmitToken(l, TEof)
        typ == Lexer_EmitType(l, TEof)
    IN  /\ tok.l = eof.l
        /\ typ.l = eof.l
        /\ (tok.panic = NoPanic) <=> (eof.panic = NoPanic)
        /\ (typ.panic = NoPanic) <=> (eof.panic = NoPanic)
        /\ (eof.panic = NoPanic) <=> ~l.eofOut
        /\ ~l.eofOut =>
             /\ tok.l.output = Append(l.output, tok.l.output[Len(tok.l.output)])
             /\ tok.l.output[Len(tok.l.output)].typ = TEof
             /\ tok.l.output[Len(tok.l.output)].value = <<>>
             /\ tok.l.cache = <<>>
             /\ tok.l.eofOut

C26_Parser ==
    LET eof == Parser_EmitEOF(p)
        nil == Parser_Emit(p, Nil)
    IN  /\ nil.p = eof.p
        /\ (nil.panic = NoPanic) <=> (eof.panic = NoPanic)
        /\ (eof.panic = NoPanic) <=> ~p.eofOut
        /\ ~p.eofOut =>
             /\ nil.p.output = Append(p.output, Nil)
             /\ nil.p.cache = <<>>
             /\ nil.p.eofOut

C26_State == IF engine = "lexer" THEN C26_Lexer ELSE C26_Parser

\* The emit of the run that went through with TEof (nil for the parser):
\* EOF is emitted, the cache is empty and the entry pushed is the EOF
\* entry, without text.
C26_After ==
    (/\ \/ last.op \in {"EmitToken", "EmitType"} /\ last.arg = TEof
        \/ last.op = "Emit" /\ last.arg = Nil
     /\ last.panic = NoPanic) =>
        /\ Eng.eofOut
        /\ eofs = 1
        /\ Eng.cache = <<>>
        /\ pending = Eng.output
        /\ pending # <<>>
        /\ IsTerminal(pending[Len(pending)])
        /\ engine = "lexer" => pending[Len(pending)].value = <<>>

C26_TerminalByEmit == C26_State /\ C26_After

\* EmitToken(TEof) went through, as the first flush, with a rune matched
\* (line and column count it): the EOF token has no text.
C26_Witness ==
    /\ last.op = "EmitToken"
    /\ last.arg = TEof
    /\ last.panic = NoPanic
    /\ l.markerID = 1
    /\ l.line >= 1
    /\ l.output[Len(l.output)].value = <<>>

\* ------------------------------------------------------------------ C27
\* C27: the token EmitToken(t) pushes, for t other than TEof, has as its
\* text the matched runes at the call, which is what PeekToken() returns
\* just before: the first matchLen runes of the cache, runes of the
\* source in the order of the source; the token EmitType(t) pushes has no
\* text.  The matched runes are the ones Next() returned since the last
\* flush, cut back by an Apply to what was matched when its marker was
\* taken.  Next() then returns the token with that type and text.
Matched(e) == [i \in 1..e.matchLen |-> e.cache[i].v]

LastOut(e) == e.output[Len(e.output)]

C27_State ==
    (engine = "lexer" /\ ~l.eofOut) =>
        /\ Lexer_PeekToken(l).panic = NoPanic
        /\ Lexer_PeekToken(l).ret = Matched(l)
        /\ Lexer_PeekToken(l).l = l
        /\ InSourceOrder(l)
        /\ \A t \in NonTerminalTypes :
             /\ LastOut(Lexer_EmitToken(l, t).l).typ = t
             /\ LastOut(Lexer_EmitToken(l, t).l).value = Lexer_PeekToken(l).ret
             /\ LastOut(Lexer_EmitType(l, t).l).typ = t
             /\ LastOut(Lexer_EmitType(l, t).l).value = <<>>

C27_Step ==
    engine = "lexer" =>
        /\ (last'.op = "EmitToken" /\ last'.panic = NoPanic /\ last'.arg # TEof) =>
             /\ LastOut(l').value = Matched(l)
             /\ LastOut(l').typ = last'.arg
        /\ (last'.op = "EmitType" /\ last'.panic = NoPanic) => LastOut(l').value = <<>>
        /\ (last'.op = "Next" /\ last'.panic = NoPanic) =>
             Matched(l') = Append(Matched(l), last'.ret)
        /\ (last'.op = "Apply" /\ last'.panic = NoPanic) =>
             /\ l'.matchLen = markers[last'.arg.slot].at.matchLen
             /\ Matched(l') = SubSeq(Matched(l), 1, l'.matchLen)
        /\ (last'.op \in FlushOps /\ last'.panic = NoPanic) => Matched(l') = <<>>
        /\ (last'.op \notin FlushOps \cup {"Next", "Apply"} \/ last'.panic # NoPanic) =>
             Matched(l') = Matched(l)
        /\ (last'.op = "Nexter.Next" /\ last'.ret.kind = "Item") =>
             /\ last'.ret.typ = Head(l.output).typ
             /\ last'.ret.value = Head(l.output).value

C27_TokenText == [](C27_State) /\ [][C27_Step]_vars

\* The source is the two runes "1" and newline; a Fn matched both and
\* emitted them with EmitToken(TStart); Next() has returned the token with
\* the two runes as its text.
C27_Witness ==
    /\ engine = "lexer"
    /\ Len(l.input.data) = 2
    /\ last.op = "Nexter.Next"
    /\ last.ret.kind = "Item"
    /\ last.ret.typ = TStart
    /\ last.ret.value = <<RuneAt(1), RuneAt(2)>>

\* ------------------------------------------------------------------ C28
\* C28: a read of the source that reports an error other than io.EOF is
\* taken as the end of the source: eof is set and the source is not read
\* again; the element the read delivered, if any, and the elements already
\* in the cache stay peekable; the call that made the read panics only as
\* it would at the end of the source ("No rune available"); growPeek does
\* to the engine what it would do had the error been io.EOF; Next()
\* returns an error only for a token of EmitError; and when nothing is
\* left to peek hasNext emits EOF and Next() returns io.EOF.
SourceFailed(e) ==
    \E i \in 1..Len(e.input.data) : i < e.input.i /\ e.input.data[i].err = ErrOther

\* The engine e reading a source that reports io.EOF where e's reports
\* another error.
EofFor(e) ==
    [e EXCEPT !.input.data =
        [i \in 1..Len(@) |-> [@[i] EXCEPT !.err = IF @ = ErrOther THEN EOF ELSE @]]]

KnownPanics ==
    {NoPanic, InvalidMarkerPanic} \cup PostTerminalPanics \cup RangePanics \cup UnavailablePanics

C28_LikeEOF ==
    \A n \in 1..MaxPeek :
        IF engine = "lexer"
        THEN /\ Lexer_growPeek(EofFor(l), n).ret = Lexer_growPeek(l, n).ret
             /\ Lexer_growPeek(EofFor(l), n).l = EofFor(Lexer_growPeek(l, n).l)
        ELSE /\ Parser_growPeek(EofFor(p), n).ret = Parser_growPeek(p, n).ret
             /\ Parser_growPeek(EofFor(p), n).p = EofFor(Parser_growPeek(p, n).p)

C28_State ==
    /\ C28_LikeEOF
    /\ last.panic \in KnownPanics
    /\ (last.op = "Nexter.Next" /\ engine = "parser") => last.ret.kind # "Error"
    /\ SourceFailed(Eng) =>
         /\ Eng.eof
         /\ Eng.input.data[Eng.input.i - 1].err = ErrOther
         /\ \A i \in 1..(Eng.input.i - 2) : Eng.input.data[i].err = NoErr
         /\ ends >= 1 => (last.ret.kind = "End" /\ Eng.output = <<>>)

C28_Step ==
    /\ (~SourceFailed(Eng) /\ SourceFailed(Eng') /\ last'.op # "autoEOF") =>
         /\ last'.op \in {"CanPeek", "Peek", "Next", "call"}
         /\ last'.panic \in {NoPanic} \cup UnavailablePanics
         /\ Len(Eng'.cache) >= Len(Eng.cache)
         /\ SubSeq(Eng'.cache, 1, Len(Eng.cache)) = Eng.cache
         /\ Eng.input.data[Eng'.input.i - 1].v # NoRune =>
                Eng'.cache[Len(Eng'.cache)].id = Eng'.input.i - 1
    /\ SourceFailed(Eng) =>
         /\ Eng'.input = Eng.input
         /\ \A n \in 1..MaxPeek :
                (Len(Eng.cache) - Eng.matchLen >= n /\ ~Eng.eofOut) => EngCanPeek(n)
         /\ (pc = "loop" /\ Eng.output = <<>> /\ Len(Eng.cache) = Eng.matchLen) =>
                last'.op = "autoEOF"
    /\ (last'.op = "Nexter.Next" /\ last'.ret.kind = "Error") =>
         Head(Eng.output).typ = TLexErr
    /\ (engine = "lexer" /\ Len(l'.output) > Len(l.output)
           /\ LastOut(l').typ = TLexErr) => last'.op = "EmitError"

C28_SourceError == [](C28_State) /\ [][C28_Step]_vars

\* The source failed at its second read and has a third element to give;
\* the element read before the failure was matched, emitted or cleared, and
\* Next() has returned io.EOF with the third element never read.
C28_Witness ==
    /\ SourceFailed(Eng)
    /\ Len(Eng.input.data) = MaxInput
    /\ Eng.input.data[MaxInput - 1].v = NoRune
    /\ Eng.input.i = MaxInput
    /\ Eng.markerID >= 2
    /\ ends = 1

\* ------------------------------------------------------------------ C29
\* C29: before EOF is emitted, the elements the flushes took, in the order
\* they took them, followed by the elements in the cache are the elements
\* accepted from the source so far, in the order they were read: every
\* element of the cache was read after every flushed one, so that no
\* flushed element is peeked, matched or flushed again, and an element
\* leaves the cache only as a matched element of a flush.
Accepts(x) ==
    IF engine = "lexer" THEN x.v \notin {NoRune, RuneError} ELSE x.v # NoRune

\* The elements the reads made so far have put in the cache, by identity.
Accepted(e) ==
    SelectSeq([i \in 1..Min(e.input.i - 1, Len(e.input.data)) |->
                   [id |-> i, v |-> e.input.data[i].v]],
              Accepts)

C29_State ==
    ~Eng.eofOut =>
        /\ flushed \o Eng.cache = Accepted(Eng)
        /\ \A i \in 1..Len(flushed), j \in 1..Len(Eng.cache) :
               flushed[i].id < Eng.cache[j].id
        /\ \A n \in 1..MaxPeek : EngCanPeek(n) =>
               \A i \in 1..Len(flushed) : flushed[i].v # EngPeek(n)

\* Of the calls the user code can make, one that leaves EOF not emitted
\* takes the matched elements off the cache and reads nothing, when it is
\* a flush that goes through, and otherwise leaves the cache as it is or
\* with elements added behind.
C29_Calls ==
    \A c \in Calls(Eng) :
        ~c.e.eofOut =>
            IF c.op \in FlushOps /\ c.panic = NoPanic
            THEN /\ c.e.cache = SubSeq(Eng.cache, Eng.matchLen + 1, Len(Eng.cache))
                 /\ c.e.input = Eng.input
            ELSE /\ Len(c.e.cache) >= Len(Eng.cache)
                 /\ SubSeq(c.e.cache, 1, Len(Eng.cache)) = Eng.cache

C29_NothingLost == C29_State /\ C29_Calls

\* Two flushes have taken the first two elements of the source between
\* them and a third element is in the cache.
C29_Witness ==
    /\ ~Eng.eofOut
    /\ Eng.markerID = 2
    /\ Len(flushed) = 2
    /\ flushed[2].id = 2
    /\ Len(Eng.cache) = 1
    /\ last.op \in FlushOps

\* ------------------------------------------------------------------ C30
\* C30: a parser reads the lexer's token.Nexter.  For a TLexErr token the
\* Nexter returns no token and an error that is not io.EOF; the parser's
\* growPeek, given that, sets eof and never calls the Nexter's Next()
\* again, so no token behind the error ever enters the cache; the tokens
\* read before the error stay in the cache for the ParserFn, which hasNext
\* goes on calling while one is peekable; then hasNext emits EOF and the
\* parser's Next() returns io.EOF.
\* What p.input.Next() returns when the lexer's Nexter has an error token.
ErrorRead == [v |-> NoRune, err |-> ErrOther]

\* The parser has read the Nexter's error: the index of that read.
ErrorAt(e) ==
    IF \E i \in 1..Len(e.input.data) : i < e.input.i /\ e.input.data[i] = ErrorRead
    THEN CHOOSE i \in 1..Len(e.input.data) : i < e.input.i /\ e.input.data[i] = ErrorRead
    ELSE 0

C30_State ==
    (engine = "parser" /\ ErrorAt(p) # 0) =>
        /\ p.eof
        /\ p.input.i = ErrorAt(p) + 1
        /\ \A j \in 1..Len(p.cache) : p.cache[j].id < ErrorAt(p)
        /\ \A j \in 1..Len(flushed) : flushed[j].id < ErrorAt(p)
        /\ \A n \in 1..MaxPeek :
             /\ Parser_CanPeek(p, n).p = p
             /\ Parser_CanPeek(p, n).ret = (~p.eofOut /\ Len(p.cache) - p.matchLen >= n)
        /\ last.panic \in KnownPanics
        /\ last.op = "Nexter.Next" => last.ret.kind \in {"Item", "End"}
        /\ ends >= 1 => (p.eofOut /\ p.output = <<>>)

C30_Step ==
    engine = "parser" =>
        /\ (ErrorAt(p) = 0 /\ ErrorAt(p') # 0 /\ last'.op # "autoEOF") =>
             /\ last'.op \in {"CanPeek", "Peek", "Next", "call"}
             /\ last'.panic \in {NoPanic} \cup UnavailablePanics
             /\ p'.cache = p.cache \o
                    [j \in 1..(ErrorAt(p') - p.input.i) |->
                        [id |-> p.input.i + j - 1, v |-> p.input.data[p.input.i + j - 1].v]]
        /\ ErrorAt(p) # 0 =>
             /\ p'.input = p.input
             /\ (pc = "loop" /\ p.output = <<>>) =>
                    IF p.nextFn # Nil /\ Len(p.cache) > p.matchLen
                    THEN last'.op = "call" /\ p' = p
                    ELSE last'.op = "autoEOF"

C30_PipelineError == [](C30_State) /\ [][C30_Step]_vars

\* The Nexter gave a token, then the error, and has a token left; the
\* ParserFn matched the first token and flushed it, and the parser's
\* Next() has returned io.EOF with the last token never asked for.
C30_Witness ==
    /\ engine = "parser"
    /\ ErrorAt(p) = MaxInput - 1
    /\ Len(p.input.data) = MaxInput
    /\ p.input.data[MaxInput].v = RuneAt(MaxInput)
    /\ Len(flushed) = MaxInput - 2
    /\ p.markerID >= 2
    /\ ends = 1

\* ------------------------------------------------------------------ C31
\* C31: once EOF is emitted hasNext calls no Fn, whatever Fn the one that
\* emitted it returned: the loop of hasNext is never at its head with EOF
\* emitted and the output list empty (the EOF entry is still on the list,
\* or Next() has taken it and returns io.EOF before the loop), and a Fn is
\* only ever called with EOF not emitted.
C31_State ==
    /\ (pc = "loop" /\ Eng.output = <<>>) => ~Eng.eofOut
    /\ last.op = "call" => ~Eng.eofOut
    /\ (Eng.eofOut /\ pc = "idle") =>
         \/ Eng.output # <<>> /\ IsTerminal(Eng.output[Len(Eng.output)])
         \/ IF engine = "lexer" THEN tn.eof ELSE an.eof

\* The call of a Fn in the run: the output list was empty and EOF was not
\* emitted (the call changes neither); and a Next() that entered hasNext
\* with EOF emitted found the output list not empty.
C31_After ==
    /\ last.op = "call" =>
         /\ pc = "fn"
         /\ Eng.output = <<>>
         /\ ~Eng.eofOut
    /\ (last.op = "Nexter.enter" /\ Eng.eofOut) =>
         /\ pc = "loop"
         /\ Eng.output # <<>>

C31_NoFnAfterEOF == C31_State /\ C31_After

\* A Fn emitted EOF with input left unread and the stored Fn is "fn2", one
\* that a Fn returned; Next() has returned io.EOF without calling it.
C31_Witness ==
    /\ Eng.nextFn = "fn2"
    /\ Eng.eofOut
    /\ ends = 1
    /\ ~SourceFailed(Eng)
    /\ Eng.input.i <= Len(Eng.input.data)
    /\ last.op = "Nexter.Next"

\* ------------------------------------------------------------------ C32
\* C32: a Fn runs only inside Next() and only while the output list is
\* empty.  Constructing the engine calls no Fn and reads nothing; hasNext
\* calls a Fn only from the head of its loop with the list empty; and a
\* Next() that finds an entry on the list returns what it owes for the
\* front entry at once: no Fn is called, the source is not read, cache,
\* matchLen, markerID and nextFn stay as they are.
C32_State ==
    /\ last.op = "new" =>
         /\ pc = "idle"
         /\ Eng.input.i = 1
         /\ Eng.cache = <<>>
         /\ Eng.output = <<>>
         /\ Eng.markerID = 0
         /\ ~Eng.eof
         /\ ~Eng.eofOut
    /\ pc = "fn" => last.op # "new"
    /\ last.op = "call" => pc = "fn"

C32_Step ==
    /\ last'.op = "call" =>
         /\ pc = "loop"
         /\ Eng.output = <<>>
         /\ last'.arg = Eng.nextFn
    /\ (pc # "fn" /\ pc' = "fn") => last'.op = "call"
    /\ (pc = "loop" /\ Eng.output # <<>>) =>
         /\ last'.op = "Nexter.Next"
         /\ pc' = "idle"
         /\ last'.ret = Delivered(Head(Eng.output))
         /\ Eng' = [Eng EXCEPT !.output = Tail(@)]
    /\ (pc = "idle" /\ Eng.output # <<>>) =>
         /\ last'.op = "Nexter.enter"
         /\ Eng' = Eng

C32_FnsOnDemand == [](C32_State) /\ [][C32_Step]_vars

\* Next() is entered with an entry that is not EOF waiting on the output
\* list, a Fn stored and input left to read.
C32_Witness ==
    /\ last.op = "Nexter.enter"
    /\ Eng.output # <<>>
    /\ ~IsTerminal(Head(Eng.output))
    /\ Eng.nextFn # Nil
    /\ ~Eng.eof
    /\ Eng.input.i <= Len(Eng.input.data)

\* ------------------------------------------------------------------ C33
\* The run of Next() when every call of a Fn returns, and returns either nil
\* or with less unmatched input than there was when it was called.  The
\* engine methods are the operators of the run above.  Of a call made inside
\* a Fn last keeps only that it was made ("Fn"); last.arg holds, while a Fn
\* runs, the unmatched input at its call; the ghosts pending, eofs and
\* flushed are not kept.
\* Unmatched input: the peekable elements of the cache and what the source
\* has not been asked for yet.
Unread(e)    == Len(e.input.data) - e.input.i + 1
Unmatched(e) == (Len(e.cache) - e.matchLen) + Unread(e)

Nexter == IF engine = "lexer" THEN tn ELSE an

SetEngine(e) == IF engine = "lexer" THEN l' = e /\ p' = p ELSE p' = e /\ l' = l
SetNexter(x) == IF engine = "lexer" THEN tn' = x /\ an' = an ELSE an' = x /\ tn' = tn

\* The struct a method leaves behind.
After(r) == IF engine = "lexer" THEN r.l ELSE r.p

Eng_CanPeek(n) == IF engine = "lexer" THEN Lexer_CanPeek(l, n) ELSE Parser_CanPeek(p, n)
Eng_Peek(n)    == IF engine = "lexer" THEN Lexer_Peek(l, n) ELSE Parser_Peek(p, n)
Eng_Next       == IF engine = "lexer" THEN Lexer_Next(l) ELSE Parser_Next(p)
Eng_EmitEOF(e) == IF engine = "lexer" THEN Lexer_EmitEOF(e) ELSE Parser_EmitEOF(e)
Eng_Clear      == IF engine = "lexer" THEN Lexer_Clear(l) ELSE Parser_Clear(p)
Eng_Marker     == IF engine = "lexer" THEN Lexer_Marker(l) ELSE Parser_Marker(p)
Eng_Reset(m)   == IF engine = "lexer" THEN Marker_Apply(l, m) ELSE Parser_Reset(p, m)

Term_NexterNext ==
    /\ pc = "idle"
    /\ ends < MaxEnds
    /\ IF Nexter.next # Nil
       THEN /\ SetNexter([Nexter EXCEPT !.next = Nil])
            /\ last' = Event("Nexter.Next", 0, 0, NoPanic)
            /\ UNCHANGED <<pc, ends>>
       ELSE IF Nexter.eof
       THEN /\ last' = Event("Nexter.Next", 0, 0, NoPanic)
            /\ ends' = ends + 1
            /\ UNCHANGED <<tn, an, pc>>
       ELSE /\ pc' = "loop"
            /\ last' = Event("Nexter.enter", 0, 0, NoPanic)
            /\ UNCHANGED <<tn, an, ends>>
    /\ UNCHANGED <<engine, l, p, markers, pending, eofs, flushed>>

\* Mutation of hasNext's loop: with no Fn to call it emits no EOF.
Term_HasNextLoop_noEOF ==
    /\ pc = "loop"
    /\ Len(Eng.output) = 0
    /\ LET called == Eng.nextFn # Nil
           e      == IF called THEN After(Eng_CanPeek(1)) ELSE Eng
       IN  IF called /\ Eng_CanPeek(1).ret
           THEN /\ SetEngine(e)
                /\ pc' = "fn"
                /\ last' = Event("call", Unmatched(e), 0, NoPanic)
           ELSE /\ SetEngine(e)
                /\ UNCHANGED <<pc, last>>
    /\ UNCHANGED <<engine, tn, an, markers, pending, eofs, ends, flushed>>

Term_HasNextLoop ==
    /\ pc = "loop"
    /\ Len(Eng.output) = 0
    /\ LET called == Eng.nextFn # Nil
           e      == IF called THEN After(Eng_CanPeek(1)) ELSE Eng
       IN  IF called /\ Eng_CanPeek(1).ret
           THEN /\ SetEngine(e)
                /\ pc' = "fn"
                /\ last' = Event("call", Unmatched(e), 0, NoPanic)
           ELSE IF ~e.eofOut
           THEN /\ SetEngine(After(Eng_EmitEOF(e)))
                /\ pc' = "loop"
                /\ last' = Event("autoEOF", 0, 0, NoPanic)
           ELSE /\ SetEngine(e)
                /\ UNCHANGED <<pc, last>>
    /\ UNCHANGED <<engine, tn, an, markers, pending, eofs, ends, flushed>>

Term_HasNextExit ==
    /\ pc = "loop"
    /\ Len(Eng.output) # 0
    /\ SetEngine([Eng EXCEPT !.output = Tail(@)])
    /\ IF IsTerminal(Head(Eng.output))
       THEN /\ SetNexter([Nexter EXCEPT !.eof = TRUE])
            /\ ends' = ends + 1
       ELSE /\ SetNexter([Nexter EXCEPT !.next = Nil])
            /\ ends' = ends
    /\ pc' = "idle"
    /\ last' = Event("Nexter.Next", 0, 0, NoPanic)
    /\ UNCHANGED <<engine, markers, pending, eofs, flushed>>

\* A call of an engine method from inside the Fn, which goes through.
Term_UserCall(r) ==
    /\ pc = "fn"
    /\ r.panic = NoPanic
    /\ SetEngine(After(r))
    /\ last' = Event("Fn", last.arg, 0, NoPanic)
    /\ UNCHANGED <<engine, tn, an, pc, markers, pending, eofs, ends, flushed>>

Term_Emit ==
    /\ FlushAllowed(Eng)
    /\ IF engine = "lexer"
       THEN \/ \E t \in EmitTypes :
                 \/ Term_UserCall(Lexer_EmitToken(l, t))
                 \/ Term_UserCall(Lexer_EmitType(l, t))
            \/ \E e \in ErrMsgs : Term_UserCall(Lexer_EmitError(l, e))
       ELSE \E ast \in Asts \cup {Nil} : Term_UserCall(Parser_Emit(p, ast))

Term_Clear ==
    /\ FlushAllowed(Eng)
    /\ Term_UserCall(Eng_Clear)

Term_Marker ==
    /\ pc = "fn"
    /\ \E s \in Slots :
         /\ FreeSlot(s)
         /\ markers' = [markers EXCEPT ![s] = [EmptySlot EXCEPT !.used = TRUE, !.m = Eng_Marker]]
    /\ last' = Event("Fn", last.arg, 0, NoPanic)
    /\ UNCHANGED <<engine, l, p, tn, an, pc, pending, eofs, ends, flushed>>

Term_Reset(s) ==
    /\ markers[s].used
    /\ Term_UserCall(Eng_Reset(markers[s].m))

\* The Fn returns nil, or a Fn with less unmatched input than at its call.
Term_FnReturn(f) ==
    /\ pc = "fn"
    /\ f = Nil \/ Unmatched(Eng) < last.arg
    /\ SetEngine([Eng EXCEPT !.nextFn = f])
    /\ pc' = "loop"
    /\ last' = Event("return", 0, 0, NoPanic)
    /\ UNCHANGED <<engine, tn, an, markers, pending, eofs, ends, flushed>>

\* (Which Fn it returns makes no difference to the loop of hasNext.)
Term_Returns == \E f \in {"fn1", Nil} : Term_FnReturn(f)

Term_FnStep ==
    \/ \E n \in 1..MaxPeek : Term_UserCall(Eng_CanPeek(n))
    \/ \E n \in 1..MaxPeek : Term_UserCall(Eng_Peek(n))
    \/ Term_UserCall(Eng_Next)
    \/ Term_Emit
    \/ Term_Clear
    \/ Term_Marker
    \/ \E s \in Slots : Term_Reset(s)
    \/ Term_Returns

Term_Driver ==
    \/ Term_NexterNext
    \/ Term_HasNextLoop
    \/ Term_HasNextExit

TermNext ==
    \/ Term_Driver
    \/ Term_FnStep

\* Finite sources: an empty text, a text of MaxInput runes, and one whose
\* read fails before its end.
TermSources ==
    {Clean(0), Clean(MaxInput),
     [Clean(MaxInput) EXCEPT ![MaxInput - 1] = [v |-> NoRune, err |-> ErrOther]]}

TermInit == Init /\ Eng.input.data \in TermSources

\* Next() runs on one thread: the consumer calls Next() again after each
\* return and hasNext goes on with its loop (WF of Term_Driver), and a Fn
\* that was called returns (WF of Term_Returns).
TermSpec ==
    /\ TermInit
    /\ [][TermNext]_vars
    /\ WF_vars(Term_Driver)
    /\ WF_vars(Term_Returns)

\* C33: on a finite source, when every call of a Fn returns nil or returns
\* with less unmatched input than at its call, every Next() that was entered
\* returns, and the consumer that keeps calling Next() gets io.EOF.
C33_Terminates ==
    /\ (pc # "idle") ~> (pc = "idle")
    /\ <>(ends > 0)

\* A Fn called with a text of MaxInput runes ahead returned a Fn and left
\* no unmatched input; Next() goes on from there.
C33_Witness ==
    /\ pc = "loop"
    /\ last.op = "return"
    /\ Eng.nextFn \in Fns
    /\ Eng.input.data = Clean(MaxInput)
    /\ Unmatched(Eng) = 0
    /\ ~Eng.eofOut

\* ------------------------------------------------------------------ C34
\* The peekable elements: the cache behind the matched ones.
PeekRegion(e) == SubSeq(e.cache, e.matchLen + 1, Len(e.cache))

\* A read that delivers an element (growPeek keeps no invalid rune and
\* nothing of a read that delivers nothing).
Delivers(x) == x.v # NoRune /\ (engine = "lexer" => x.v # RuneError)

\* The elements the source delivered between e0 and e1, in its order.
Fetched(e0, e1) ==
    SelectSeq([j \in 1..(e1.input.i - e0.input.i) |->
                  [id |-> e0.input.i + j - 1, v |-> e0.input.data[e0.input.i + j - 1].v]],
              Delivers)

\* C34: a CanPeek(n) that returns false before EOF is emitted has read the
\* source to its end (or to its error) and has kept every element it got:
\* the peek region is what it was, followed by the elements fetched, in
\* source order; for each k up to their number CanPeek(k) is then true and
\* Peek(k) returns the k-th of them, neither reading nor changing anything,
\* and the same CanPeek(n) again is false and reads nothing more.
C34_Short(e, n) ==
    LET cp    == CanPeekOf(e, n)
        e1    == cp.e
        avail == Len(PeekRegion(e1))
    IN  (~cp.ret /\ cp.panic = NoPanic) =>
            /\ e1.eof
            /\ avail < n
            /\ e1 = [e EXCEPT !.cache = e1.cache, !.input = e1.input, !.eof = TRUE]
            /\ e1.input.data = e.input.data
            /\ PeekRegion(e1) = PeekRegion(e) \o Fetched(e, e1)
            /\ CanPeekOf(e1, n) = [e |-> e1, ret |-> FALSE, panic |-> NoPanic]
            /\ \A k \in 1..avail :
                 /\ CanPeekOf(e1, k) = [e |-> e1, ret |-> TRUE, panic |-> NoPanic]
                 /\ PeekOf(e1, k) = [e |-> e1, ret |-> PeekRegion(e1)[k].v, panic |-> NoPanic]

C34_KeptPastEOF ==
    ~Eng.eofOut => \A n \in 1..MaxPeek : C34_Short(Eng, n)

\* CanPeek ran and left a source read to its end with two elements to peek,
\* behind one that is matched: CanPeek(3) is false there.
C34_Witness ==
    /\ last.op = "CanPeek"
    /\ last.panic = NoPanic
    /\ ~Eng.eofOut
    /\ Eng.eof
    /\ Eng.matchLen = 1
    /\ Len(PeekRegion(Eng)) = 2
    /\ ~CanPeekOf(Eng, 3).ret

\* ------------------------------------------------------------------ C35
\* The calls that may read the source: CanPeek, Peek and Next, and the
\* CanPeek(1) of hasNext's loop (before it calls a Fn or emits EOF).
PullOps == {"CanPeek", "Peek", "Next", "call", "autoEOF"}

\* e1 is e after a request for n elements: the source was read only if e had
\* fewer than n to peek and was not at its end, and then no further than to
\* the n-th element or to the end of the source.
C35_Pulled(e, e1, n) ==
    /\ e1.input.data = e.input.data
    /\ e1.input.i >= e.input.i
    /\ (Len(PeekRegion(e)) >= n \/ e.eof) => e1.input = e.input
    /\ e1.input.i > e.input.i =>
         /\ Len(e1.cache) - e.matchLen <= n
         /\ Len(e1.cache) - e.matchLen = n \/ e1.eof
         /\ \A j \in e.input.i..(e1.input.i - 2) : e.input.data[j].err = NoErr

\* C35: the source is read on demand and forward only.  In every state,
\* CanPeek(n), Peek(n) and Next read the source only when fewer than n (for
\* Next, one) elements are there to peek, stop at the n-th or at the first
\* read that reports an error, and read nothing once eof is set.
C35_State ==
    /\ \A n \in 1..MaxPeek :
         /\ C35_Pulled(Eng, CanPeekOf(Eng, n).e, n)
         /\ C35_Pulled(Eng, PeekOf(Eng, n).e, n)
    /\ C35_Pulled(Eng, NextOf(Eng).e, 1)

\* No call the user code can make, and neither the CanPeek(1) nor the
\* EmitEOF of hasNext, moves the source back or changes what it holds;
\* only the calls of PullOps read it, none reads it once eof is set, and
\* eof stays set.
C35_Calls ==
    /\ \A c \in Calls(Eng) :
         /\ c.e.input.data = Eng.input.data
         /\ c.e.input.i >= Eng.input.i
         /\ c.e.input.i > Eng.input.i => (c.op \in PullOps /\ ~Eng.eof)
         /\ Eng.eof => c.e.eof
    /\ LET cp == CanPeekOf(Eng, 1).e
           e  == EmitEOFOf(cp).e
       IN  /\ e.input = cp.input
           /\ e.eof

C35_PulledOnDemand == C35_State /\ C35_Calls

\* CanPeek ran and two of three runes are read: both are there to peek and
\* the source is not at its end.
C35_Witness ==
    /\ last.op = "CanPeek"
    /\ last.panic = NoPanic
    /\ Eng.input.data = Clean(MaxInput)
    /\ Eng.input.i = 3
    /\ Len(PeekRegion(Eng)) = 2
    /\ ~Eng.eof
    /\ CanPeekOf(Eng, 2) = [e |-> Eng, ret |-> TRUE, panic |-> NoPanic]

\* ------------------------------------------------------------------ C36
\* e1 is e with elements appended to its cache, its source read on, and
\* perhaps eof set; every other field is as in e, and so is every element
\* that was in the cache.
C36_OnlyFetched(e, e1) ==
    /\ e1 = [e EXCEPT !.cache = e1.cache, !.input = e1.input, !.eof = e1.eof]
    /\ e1.cache = e.cache \o Fetched(e, e1)
    /\ e.eof => e1.eof
    /\ e1.input.data = e.input.data

\* C36: CanPeek(n) and Peek(n) consume nothing.  In every state and for
\* every n, whether they return or panic, the struct they leave has the
\* matchLen, matchTail, markerID, output list, nextFn and eofOut it had and
\* the cache it had with the fetched elements appended; after the CanPeek
\* or Peek of a run the nexter holds nothing more than before it.
C36_State ==
    \A n \in 0..MaxPeek :
        /\ C36_OnlyFetched(Eng, CanPeekOf(Eng, n).e)
        /\ C36_OnlyFetched(Eng, PeekOf(Eng, n).e)

\* The CanPeek or Peek of the run: the output list is what Next() is owed,
\* the nexter holds nothing, and the Fn goes on unless the call panicked.
C36_After ==
    last.op \in {"CanPeek", "Peek"} =>
        /\ pending = Eng.output
        /\ Nexter.next = Nil
        /\ ~Nexter.eof
        /\ pc = IF last.panic = NoPanic THEN "fn" ELSE "idle"

C36_PeekKeeps == C36_State /\ C36_After

\* Peek returned a rune with one element matched, one flush done, one entry
\* on the output list and a Fn stored; the source is at its end.
C36_Witness ==
    /\ last.op = "Peek"
    /\ last.panic = NoPanic
    /\ Eng.matchLen = 1
    /\ Eng.markerID = 1
    /\ Len(Eng.output) = 1
    /\ Eng.nextFn # Nil
    /\ Len(PeekRegion(Eng)) = 1
    /\ Eng.eof

\* ------------------------------------------------------------------ C37
\* l1 is l0 after an EmitError(err) that went through: the matched elements
\* are off the cache and the peekable ones are all there is in it, matchLen
\* is 0, markerID is one more, one TLexErr token is added at the back of
\* the output list, and the source, eof, eofOut and nextFn are as they were.
C37_Flushed(l0, l1, err) ==
    /\ l1.cache = PeekRegion(l0)
    /\ l1.matchLen = 0
    /\ l1.markerID = l0.markerID + 1
    /\ Len(l1.output) = Len(l0.output) + 1
    /\ SubSeq(l1.output, 1, Len(l0.output)) = l0.output
    /\ l1.output[Len(l1.output)].typ = TLexErr
    /\ l1.output[Len(l1.output)].value = Sprintf_pos(l1.line, l1.column, err)
    /\ ~l1.eofOut
    /\ l1.eof = l0.eof
    /\ l1.input = l0.input
    /\ l1.nextFn = l0.nextFn
    /\ ~Marker_Valid(l1, Lexer_Marker(l0))

\* C37: EmitError is a flush.  In every state of the lexer before EOF is
\* emitted EmitError(err) goes through and leaves the struct as C37_Flushed
\* says, and its token is the one EmitError pushes when nothing is matched
\* (after Clear): the matched text is no part of it.  In a run the step of
\* an EmitError leaves no marker held valid, adds one item to the queue and
\* no end-of-stream item.
C37_State ==
    (engine = "lexer" /\ ~l.eofOut) =>
        \A err \in ErrMsgs :
            LET r == Lexer_EmitError(l, err)
                c == Lexer_EmitError(Lexer_Clear(l).l, err)
            IN  /\ r.panic = NoPanic
                /\ C37_Flushed(l, r.l, err)
                /\ r.l.output[Len(r.l.output)] = c.l.output[Len(c.l.output)]

\* The EmitError of the run that went through: no marker held is valid,
\* the token at the back of the queue is its error token, nothing is
\* matched, no end-of-stream item was added and the Fn goes on.
C37_After ==
    (last.op = "EmitError" /\ last.panic = NoPanic) =>
        /\ \A s \in Slots : markers[s].used =>
               (markers[s].stale /\ ~Marker_Valid(l, markers[s].m))
        /\ pending = l.output
        /\ pending # <<>>
        /\ LastOut(l).typ = TLexErr
        /\ LastOut(l).value = Sprintf_pos(l.line, l.column, last.arg)
        /\ l.matchLen = 0
        /\ ~l.eofOut
        /\ eofs = 0
        /\ pc = "fn"

C37_EmitErrorFlushes == C37_State /\ C37_After

\* EmitError went through with a marker held: an element was matched and
\* is flushed, another is left to peek, and the source is not at its end.
C37_Witness ==
    /\ last.op = "EmitError"
    /\ last.panic = NoPanic
    /\ markers[1].used
    /\ flushed # <<>>
    /\ l.markerID = 1
    /\ Len(l.cache) = 1
    /\ ~l.eof

\* ------------------------------------------------------------------ C38
\* The HasNext()/Next() iterator of src/lexer/tokens.go over the lexer: tn is
\* the Tokens struct [next, eof], its next the cached token as a sequence of
\* one, or the empty sequence for nil.  Its loop is the loop of hasNext above
\* (Lexer.HasNext is CanPeek(1)) and the Fns are the same.  HasNext() and a
\* Next() that finds nothing cached run the same code up to the end of
\* HasNext, so which of the two a call was shows in its last step only.
\* last.arg of "Tokens.HasNext" is 1 when it answered without its loop.

\* Mutation of HasNext's head: the cached token is not looked at.
Tokens_Enter_uncached ==
    /\ engine = "lexer"
    /\ pc = "idle"
    /\ ~tn.eof
    /\ pc' = "loop"
    /\ last' = Event("Tokens.enter", 0, 0, NoPanic)
    /\ UNCHANGED <<engine, flushed, l, tn, markers, pending, eofs, ends, parserVars>>

\* HasNext(), or Next() on its way into HasNext(): nothing is cached and EOF
\* was not reached, the loop is next.
Tokens_Enter ==
    /\ engine = "lexer"
    /\ pc = "idle"
    /\ tn.next = <<>>
    /\ ~tn.eof
    /\ pc' = "loop"
    /\ last' = Event("Tokens.enter", 0, 0, NoPanic)
    /\ UNCHANGED <<engine, flushed, l, tn, markers, pending, eofs, ends, parserVars>>

\* HasNext() with a token cached, or after EOF was reached.
Tokens_HasNext ==
    /\ engine = "lexer"
    /\ pc = "idle"
    /\ tn.next # <<>> \/ tn.eof
    /\ last' = Event("Tokens.HasNext", 1, tn.next # <<>>, NoPanic)
    /\ UNCHANGED <<engine, flushed, l, tn, pc, markers, pending, eofs, ends, parserVars>>

\* Next() with a token cached, or after EOF was reached (HasNext() is
\* false and Next panics).
Tokens_Next ==
    /\ engine = "lexer"
    /\ pc = "idle"
    /\ IF tn.next # <<>>
       THEN /\ last' = Event("Tokens.Next", 0, tn.next[1], NoPanic)
            /\ tn' = [tn EXCEPT !.next = <<>>]
            /\ pending' = Tail(pending)
       ELSE /\ tn.eof
            /\ last' = Event("Tokens.Next", 0, Nil, "Tokens.Next: No token available")
            /\ UNCHANGED <<tn, pending>>
    /\ UNCHANGED <<engine, flushed, l, pc, markers, eofs, ends, parserVars>>

\* The end of HasNext: the front token is taken off the list; the EOF token
\* is dropped and EOF recorded, any other is cached.  HasNext() returns
\* there; Next() goes on to panic, or to hand out the cached token.
Tokens_Exit ==
    /\ engine = "lexer"
    /\ pc = "loop"
    /\ Len(l.output) # 0
    /\ LET token == Head(l.output)
       IN  /\ l' = [l EXCEPT !.output = Tail(@)]
           /\ IF token_eof(token)
              THEN /\ tn' = [tn EXCEPT !.eof = TRUE]
                   /\ pending' = Tail(pending)
                   /\ \/ last' = Event("Tokens.HasNext", 0, FALSE, NoPanic)
                      \/ last' = Event("Tokens.Next", 0, Nil, "Tokens.Next: No token available")
              ELSE \/ /\ tn' = [tn EXCEPT !.next = <<token>>]
                      /\ pending' = pending
                      /\ last' = Event("Tokens.HasNext", 0, TRUE, NoPanic)
                   \/ /\ tn' = [tn EXCEPT !.next = <<>>]
                      /\ pending' = Tail(pending)
                      /\ last' = Event("Tokens.Next", 0, token, NoPanic)
    /\ pc' = "idle"
    /\ UNCHANGED <<engine, flushed, markers, eofs, ends, parserVars>>

TokensNext ==
    \/ Tokens_Enter
    \/ Tokens_HasNext
    \/ Tokens_Next
    \/ HasNextLoop
    \/ Tokens_Exit
    \/ FnStep

TokensInit ==
    /\ engine = "lexer"
    /\ \E src \in Sources, start \in {"fn1", Nil} :
           /\ l = newLexer([data |-> src, i |-> 1], start)
           /\ p = newParser(NoInput, Nil)
    /\ tn = [next |-> <<>>, eof |-> FALSE]
    /\ an = [next |-> Nil, eof |-> FALSE]
    /\ pc = "idle"
    /\ markers = [s \in Slots |-> EmptySlot]
    /\ last = Event("new", 0, 0, NoPanic)
    /\ pending = <<>>
    /\ eofs = 0
    /\ ends = 0
    /\ flushed = <<>>

TokensSpec == TokensInit /\ [][TokensNext]_vars

\* C38: after HasNext() has returned, HasNext() again returns the same and
\* changes nothing: the lexer, its output list and the Tokens struct are as
\* they were, and neither the loop nor a Fn runs before Next() is called.
\* Next() after HasNext() returned true returns the cached token, which is
\* the first item not yet handed out, and clears the cache without touching
\* the lexer; Next() after HasNext() returned false panics.
C38_State ==
    /\ tn.next # <<>> => (pending # <<>> /\ Head(pending) = tn.next[1] /\ ~tn.eof)
    /\ last.op = "Tokens.HasNext" =>
         /\ pc = "idle"
         /\ last.ret = (tn.next # <<>>)
         /\ ~last.ret => tn.eof

C38_Step ==
    /\ last.op = "Tokens.HasNext" =>
         /\ last'.op \in {"Tokens.HasNext", "Tokens.Next"}
         /\ l' = l
         /\ pc' = "idle"
    /\ (last.op = "Tokens.HasNext" /\ last'.op = "Tokens.HasNext") =>
         /\ last'.ret = last.ret
         /\ UNCHANGED <<tn, markers, pending, eofs, flushed>>
    /\ (last.op = "Tokens.HasNext" /\ last'.op = "Tokens.Next") =>
         IF last.ret
         THEN /\ last'.panic = NoPanic
              /\ last'.ret = tn.next[1]
              /\ last'.ret = Head(pending)
              /\ tn' = [tn EXCEPT !.next = <<>>]
         ELSE /\ last'.panic = "Tokens.Next: No token available"
              /\ tn' = tn
    /\ (last'.op = "Tokens.Next" /\ tn.eof) =>
         /\ last'.panic = "Tokens.Next: No token available"
         /\ UNCHANGED <<l, tn, pending>>

C38_HasNextCached == [](C38_State) /\ [][C38_Step]_vars

\* HasNext() answered true from the cache while another token waits on the
\* output list and a Fn is stored with input left to read.
C38_Witness ==
    /\ last.op = "Tokens.HasNext"
    /\ last.arg = 1
    /\ tn.next # <<>>
    /\ l.output # <<>>
    /\ ~token_eof(Head(l.output))
    /\ l.nextFn # Nil
    /\ ~l.eof

\* ------------------------------------------------------------------ C39
peekHeadOf(e) == IF engine = "lexer" THEN Lexer_peekHead(e) ELSE Parser_peekHead(e)

\* matchTail and peekHead agree with matchLen: with something matched,
\* matchTail is the matchLen-th element of the cache and peekHead the one
\* after it (none when all is matched); with nothing matched peekHead is
\* the front of the cache, wherever matchTail points.
TailOK(e) ==
    /\ e.matchLen >= 0
    /\ e.matchLen <= Len(e.cache)
    /\ e.matchLen > 0 =>
         /\ ElemPos(e.cache, e.matchTail) = e.matchLen
         /\ peekHeadOf(e) = IF e.matchLen < Len(e.cache) THEN e.matchLen + 1 ELSE 0
    /\ e.matchLen = 0 => peekHeadOf(e) = IF Len(e.cache) > 0 THEN 1 ELSE 0

\* Applying m to e: refused and e left as it is, or matchLen is the marker's
\* and matchTail and peekHead agree with it.
AppliedOK(e, m) ==
    LET r == ApplyOf(e, m)
    IN  IF r.panic # NoPanic THEN r.e = e
        ELSE r.e.matchLen = m.matchLen /\ TailOK(r.e)

\* C39: in every reachable state matchTail and peekHead agree with matchLen,
\* and they still do after markers are applied in whatever order: the
\* marker held (m1), one taken in this state (m2) and one taken after one
\* more Next (m3), each applied after the others, going back to a smaller
\* matchLen or forward to a larger one.
C39_State ==
    /\ TailOK(Eng)
    /\ \A s \in Slots : markers[s].used =>
         LET m1 == markers[s].m
             m2 == MarkerOf(Eng)
             n  == NextOf(Eng)
             m3 == MarkerOf(n.e)
             a  == ApplyOf(Eng, m1).e
             b  == ApplyOf(a, m2).e
             d  == ApplyOf(n.e, m1).e
             f  == ApplyOf(d, m3).e
         IN  /\ AppliedOK(Eng, m1)
             /\ AppliedOK(a, m2)
             /\ AppliedOK(b, m1)
             /\ n.panic = NoPanic =>
                  /\ TailOK(n.e)
                  /\ AppliedOK(n.e, m1)
                  /\ AppliedOK(n.e, m2)
                  /\ AppliedOK(d, m3)
                  /\ AppliedOK(f, m2)
                  /\ AppliedOK(f, m1)

\* An Apply / Reset of a marker held leaves the cache as it is.
C39_Call ==
    \A m \in Held : ApplyOf(Eng, m).e.cache = Eng.cache

C39_TailAtMatchLen == C39_State /\ C39_Call

\* A marker taken with one element matched was applied with two matched;
\* the one taken after one more Next goes forward to two from there, and
\* the marker held goes back to one again.
C39_Witness ==
    /\ Restored
    /\ last.arg.from = 2
    /\ Eng.matchLen = 1
    /\ markers[1].used
    /\ LET n == NextOf(Eng)
           b == ApplyOf(ApplyOf(n.e, markers[1].m).e, MarkerOf(n.e))
       IN  /\ n.panic = NoPanic
           /\ n.e.matchLen = 2
           /\ ApplyOf(n.e, markers[1].m).e.matchLen = 1
           /\ b.panic = NoPanic
           /\ b.e.matchLen = 2
           /\ ApplyOf(b.e, markers[1].m).e.matchLen = 1

====
